---- MODULE Spec2Model ----
(***************************************************************************)
(* The ingestion pipeline of kotlin_onnx_backend/server.js: the four POST  *)
(* handlers /logs, /tracking, /upload-image and /bus-image, the helpers    *)
(* they share (isRecentlyProcessed, formatTimestamp, formatLocation) and   *)
(* the process-wide table recentObjects.                                   *)
(*                                                                         *)
(* Node runs a handler without interruption up to its next await, so each  *)
(* action below is one such synchronous stretch; the awaited storage call  *)
(* completes (or fails) in a later action.  Date.now() is the variable     *)
(* now, in milliseconds since the epoch.                                   *)
(***************************************************************************)
EXTENDS Integers, Sequences, FiniteSets, TLC

VARIABLES now, recentObjects, store, inflight, nextId, log, cleanup

vars == <<now, recentObjects, store, inflight, nextId, log, cleanup>>

(***************************************************************************)
(* Bounds of the model.                                                    *)
(***************************************************************************)
\* Requests issued in one behaviour.
MaxReq == 2
\* Position, in Instants, of the last instant the clock may reach.
MaxTick == 3

(***************************************************************************)
(* JavaScript values.  A request body is JSON, so a field holds a string,  *)
(* a number, a boolean, null, or is absent (undefined).  Numbers are       *)
(* integers here; NaN is a value of its own.                               *)
(***************************************************************************)
Undef == [t |-> "undefined"]
Null == [t |-> "null"]
NaN == [t |-> "NaN"]
Str(s) == [t |-> "string", s |-> s]
Num(n) == [t |-> "number", n |-> n]
Bool(b) == [t |-> "boolean", b |-> b]

\* ToBoolean: what `!v`, `v || w` and `if (v)` test.
Truthy(v) ==
    CASE v.t = "string" -> v.s # ""
      [] v.t = "number" -> v.n # 0
      [] v.t = "boolean" -> v.b
      [] OTHER -> FALSE

\* v || w
Or(v, w) == IF Truthy(v) THEN v ELSE w

\* ToString, as a template literal `${v}` applies it.
ToStr(v) ==
    CASE v.t = "string" -> v.s
      [] v.t = "number" -> ToString(v.n)
      [] v.t = "boolean" -> (IF v.b THEN "true" ELSE "false")
      [] v.t = "null" -> "null"
      [] v.t = "NaN" -> "NaN"
      [] OTHER -> "undefined"

(***************************************************************************)
(* Strings.                                                                *)
(***************************************************************************)
Min(a, b) == IF a < b THEN a ELSE b
Max(a, b) == IF a > b THEN a ELSE b

Digits == {"0", "1", "2", "3", "4", "5", "6", "7", "8", "9"}

DigitVal(c) ==
    CASE c = "0" -> 0 [] c = "1" -> 1 [] c = "2" -> 2 [] c = "3" -> 3
      [] c = "4" -> 4 [] c = "5" -> 5 [] c = "6" -> 6 [] c = "7" -> 7
      [] c = "8" -> 8 [] c = "9" -> 9

CharAt(s, i) == SubSeq(s, i, i)

\* String.prototype.includes
Includes(s, sub) ==
    \E i \in 1..(Len(s) - Len(sub) + 1) : SubSeq(s, i, i + Len(sub) - 1) = sub

\* String.prototype.slice(a, b) and substring(a, b) for 0 <= a <= b.
Slice(s, a, b) == SubSeq(s, a + 1, Min(b, Len(s)))

\* String.prototype.replace(c, d) for a one-character pattern: the first
\* occurrence only.
ReplaceFirst(s, c, d) ==
    IF ~Includes(s, c) THEN s
    ELSE LET i == CHOOSE j \in 1..Len(s) :
                      /\ CharAt(s, j) = c
                      /\ \A k \in 1..(j - 1) : CharAt(s, k) # c
         IN SubSeq(s, 1, i - 1) \o d \o SubSeq(s, i + 1, Len(s))

LowerOf(c) ==
    CASE c = "A" -> "a" [] c = "B" -> "b" [] c = "C" -> "c" [] c = "D" -> "d"
      [] c = "E" -> "e" [] c = "F" -> "f" [] c = "G" -> "g" [] c = "H" -> "h"
      [] c = "I" -> "i" [] c = "J" -> "j" [] c = "K" -> "k" [] c = "L" -> "l"
      [] c = "M" -> "m" [] c = "N" -> "n" [] c = "O" -> "o" [] c = "P" -> "p"
      [] c = "Q" -> "q" [] c = "R" -> "r" [] c = "S" -> "s" [] c = "T" -> "t"
      [] c = "U" -> "u" [] c = "V" -> "v" [] c = "W" -> "w" [] c = "X" -> "x"
      [] c = "Y" -> "y" [] c = "Z" -> "z" [] OTHER -> c

RECURSIVE ToLowerCase(_)
ToLowerCase(s) ==
    IF s = "" THEN "" ELSE LowerOf(CharAt(s, 1)) \o ToLowerCase(SubSeq(s, 2, Len(s)))

\* The longest prefix of s made of digits only.
RECURSIVE DigitPrefix(_)
DigitPrefix(s) ==
    IF s = "" \/ CharAt(s, 1) \notin Digits THEN ""
    ELSE CharAt(s, 1) \o DigitPrefix(SubSeq(s, 2, Len(s)))

RECURSIVE DigitsValue(_, _)
DigitsValue(s, acc) ==
    IF s = "" THEN acc
    ELSE DigitsValue(SubSeq(s, 2, Len(s)), 10 * acc + DigitVal(CharAt(s, 1)))

AllDigits(s) == \A i \in 1..Len(s) : CharAt(s, i) \in Digits

\* n as decimal digits, zero-padded on the left to width w.
RECURSIVE Pad(_, _)
Pad(n, w) == IF Len(ToString(n)) >= w THEN ToString(n) ELSE "0" \o Pad(n, w - 1)

(***************************************************************************)
(* Number conversions.                                                     *)
(***************************************************************************)
\* s without its leading sign, and the sign's factor.
Unsigned(s) == IF s # "" /\ CharAt(s, 1) \in {"-", "+"} THEN SubSeq(s, 2, Len(s)) ELSE s
SignOf(s) == IF s # "" /\ CharAt(s, 1) = "-" THEN -1 ELSE 1

\* The decimal prefix parseInt reads off a string: an optional sign and
\* digits; NaN when there is no digit.  parseFloat reads on through an
\* exponent.  (Fractions are outside the integers of this model.)
SignedDigits(sign, digits) ==
    IF digits = "" THEN NaN ELSE Num(sign * DigitsValue(digits, 0))
ParsePrefix(s) == SignedDigits(SignOf(s), DigitPrefix(Unsigned(s)))

\* s is digits, "e" or "E", digits: 1e4.
IsExponent(s) ==
    \E i \in 2..(Len(s) - 1) :
        /\ CharAt(s, i) \in {"e", "E"}
        /\ AllDigits(SubSeq(s, 1, i - 1))
        /\ AllDigits(SubSeq(s, i + 1, Len(s)))

RECURSIVE Pow10(_)
Pow10(k) == IF k = 0 THEN 1 ELSE 10 * Pow10(k - 1)

\* The value of digits-e-digits text with its "e" at position i.
ExponentAt(s, i) ==
    DigitsValue(SubSeq(s, 1, i - 1), 0) * Pow10(DigitsValue(SubSeq(s, i + 1, Len(s)), 0))

ExponentValue(s) ==
    ExponentAt(s, CHOOSE i \in 2..(Len(s) - 1) : CharAt(s, i) \in {"e", "E"})

\* The number a whole string denotes: Number(s).
NumberOfText(sign, u) ==
    IF u # "" /\ AllDigits(u) THEN Num(sign * DigitsValue(u, 0))
    ELSE IF IsExponent(u) THEN Num(sign * ExponentValue(u))
    ELSE NaN

\* Number(v)
ToNumber(v) ==
    CASE v.t = "number" -> v
      [] v.t = "boolean" -> Num(IF v.b THEN 1 ELSE 0)
      [] v.t = "null" -> Num(0)
      [] v.t = "string" ->
            (IF v.s = "" THEN Num(0) ELSE NumberOfText(SignOf(v.s), Unsigned(v.s)))
      [] OTHER -> NaN

\* parseFloat of a string.
FloatPrefix(sign, u) ==
    IF IsExponent(u) THEN Num(sign * ExponentValue(u)) ELSE SignedDigits(sign, DigitPrefix(u))

\* parseFloat(v): v is converted to a string first.
parseFloat(v) ==
    IF v.t = "number" THEN v ELSE FloatPrefix(SignOf(ToStr(v)), Unsigned(ToStr(v)))

\* parseInt(v)
parseInt(v) == IF v.t = "number" THEN v ELSE ParsePrefix(ToStr(v))

\* Number(v) is NaN: what the global isNaN(v) answers.
isNaN(v) == ToNumber(v) = NaN

(***************************************************************************)
(* Dates: new Date(ms).toISOString() in UTC.                               *)
(***************************************************************************)
MsPerDay == 24 * 3600000

\* The civil date of day z counted from 1970-01-01 (proleptic Gregorian),
\* computed in steps: the day of the 400-year era (doe), the year of the era
\* (yoe), the day of the year counted from 1 March (doy), the month counted
\* from March (mp).
CivilOfMonth(doy, y, mp) ==
    [y |-> y + (IF mp >= 10 THEN 1 ELSE 0),
     m |-> IF mp < 10 THEN mp + 3 ELSE mp - 9,
     d |-> doy - (153 * mp + 2) \div 5 + 1]
CivilOfDay(doy, y) == CivilOfMonth(doy, y, (5 * doy + 2) \div 153)
CivilOfYear(doe, era, yoe) ==
    CivilOfDay(doe - (365 * yoe + yoe \div 4 - yoe \div 100), yoe + era * 400)
CivilOfEra(doe, era) ==
    CivilOfYear(doe, era,
                (doe - doe \div 1460 + doe \div 36524 - doe \div 146096) \div 365)
CivilOfShifted(zz) == CivilOfEra(zz % 146097, zz \div 146097)
CivilFromDays(z) == CivilOfShifted(z + 719468)

\* The ISO text of civil date c and r milliseconds into the day.
IsoText(c, r) ==
    Pad(c.y, 4) \o "-" \o Pad(c.m, 2) \o "-" \o Pad(c.d, 2) \o "T"
    \o Pad(r \div 3600000, 2) \o ":" \o Pad((r % 3600000) \div 60000, 2) \o ":"
    \o Pad((r % 60000) \div 1000, 2) \o "." \o Pad(r % 1000, 3) \o "Z"

toISOString(ms) == IsoText(CivilFromDays(ms \div MsPerDay), ms % MsPerDay)

\* date.toISOString().slice(0, 19).replace('T', ' ')
Canonical(ms) == ReplaceFirst(Slice(toISOString(ms), 0, 19), "T", " ")

\* /^\d{4}-\d{2}-\d{2} \d{2}:\d{2}:\d{2}$/.test(s)
IsCanonical(s) ==
    /\ Len(s) = 19
    /\ \A i \in 1..19 :
          CASE i \in {5, 8} -> CharAt(s, i) = "-"
            [] i = 11 -> CharAt(s, i) = " "
            [] i \in {14, 17} -> CharAt(s, i) = ":"
            [] OTHER -> CharAt(s, i) \in Digits

\* new Date(s).getTime() for a string s that is neither numeric, nor holds a
\* 'T', nor is canonical: the strings of this model that get here are not
\* dates, and V8 answers NaN (Invalid Date).
DateParse(s) == NaN

(* formatTimestamp(timestamp), called when Date.now() = t.  A JSON body holds
   no Date object, so the instanceof branch is never taken by a handler. *)
\* The end of formatTimestamp: date.getTime() is ms; an invalid date throws
\* and the catch block answers the current time, current.
FormatDate(ms, current) == IF ms.t = "NaN" THEN current ELSE Canonical(ms.n)

\* formatTimestamp with the current time already formatted.
FormatOr(timestamp, current) ==
    IF ~Truthy(timestamp) THEN current
    ELSE IF ~isNaN(timestamp)
    THEN FormatDate(parseInt(timestamp), current)
    ELSE IF timestamp.t = "string" /\ Includes(timestamp.s, "T")
    THEN ReplaceFirst(Slice(timestamp.s, 0, 19), "T", " ")
    ELSE IF timestamp.t = "string" /\ IsCanonical(timestamp.s)
    THEN timestamp.s
    ELSE FormatDate(DateParse(ToStr(timestamp)), current)

formatTimestamp(timestamp, t) == FormatOr(timestamp, Canonical(t))

(***************************************************************************)
(* formatLocation(location, posX, posY).  location.includes is a method of *)
(* strings: on a truthy number or boolean the call throws a TypeError.     *)
(***************************************************************************)
Thrown == [t |-> "TypeError"]

\* A variant of formatLocation that prefers the positions to the location,
\* for testing the properties that depend on the order of its tests.
formatLocationByPosition(location, posX, posY) ==
    IF posX.t \notin {"undefined", "null"} /\ posY.t \notin {"undefined", "null"}
    THEN Str(ToStr(posX) \o "," \o ToStr(posY))
    ELSE IF Truthy(location) THEN location
    ELSE Str("0,0")

formatLocation(location, posX, posY) ==
    IF Truthy(location) /\ location.t # "string" THEN Thrown
    ELSE IF /\ Truthy(location)
            /\ location.s # "null,null"
            /\ ~Includes(location.s, "undefined")
    THEN location
    ELSE IF posX.t \notin {"undefined", "null"} /\ posY.t \notin {"undefined", "null"}
    THEN Str(ToStr(posX) \o "," \o ToStr(posY))
    ELSE Str("0,0")

(***************************************************************************)
(* The duplicate suppressor: recentObjects and isRecentlyProcessed(key).   *)
(* A table is a function from the keys it holds to their last-seen time.   *)
(***************************************************************************)
\* now - lastTime < 10000
DedupWindow == 10000
\* recentObjects.size > 100
SweepSize == 100
\* now - v > 30000
SweepAge == 30000

EmptyTable == [k \in {} |-> 0]

\* recentObjects.set(key, t)
TableSet(tbl, key, t) ==
    [k \in DOMAIN tbl \cup {key} |-> IF k = key THEN t ELSE tbl[k]]

\* Variants of isRecentlyProcessed's comparison, for testing the properties
\* that depend on it: a window one millisecond shorter, and a window that
\* includes its end.
IsRecentShort(tbl, key, t) == key \in DOMAIN tbl /\ t - tbl[key] < DedupWindow - 1
IsRecentInclusive(tbl, key, t) == key \in DOMAIN tbl /\ t - tbl[key] <= DedupWindow

\* What isRecentlyProcessed(key) returns when Date.now() = t.
IsRecent(tbl, key, t) == key \in DOMAIN tbl /\ t - tbl[key] < DedupWindow

\* A variant of the clean-up loop that also deletes an entry aged exactly
\* SweepAge, for testing the properties that depend on the loop's comparison.
SweepOldInclusive(tbl, t) ==
    IF Cardinality(DOMAIN tbl) > SweepSize
    THEN [k \in {j \in DOMAIN tbl : ~(t - tbl[j] >= SweepAge)} |-> tbl[k]]
    ELSE tbl

\* A variant of isRecentlyProcessed without the clean-up loop, for testing
\* the properties that depend on the loop being run.
SweepOldNever(tbl, t) == tbl

\* The clean-up loop at the end of isRecentlyProcessed.
SweepOld(tbl, t) ==
    IF Cardinality(DOMAIN tbl) > SweepSize
    THEN [k \in {j \in DOMAIN tbl : ~(t - tbl[j] > SweepAge)} |-> tbl[k]]
    ELSE tbl

\* Variants of isRecentlyProcessed's effect on the table, for testing the
\* properties that depend on it: one that sets the key's time on every call,
\* and one that never sets it.
TableRefreshed(tbl, key, t) == SweepOld(TableSet(tbl, key, t), t)
TableNotRecorded(tbl, key, t) == tbl

\* recentObjects after isRecentlyProcessed(key) when Date.now() = t.
TableAfterCheck(tbl, key, t) ==
    IF IsRecent(tbl, key, t) THEN tbl ELSE SweepOld(TableSet(tbl, key, t), t)

(***************************************************************************)
(* Request bodies and persisted documents.                                 *)
(***************************************************************************)
Fields ==
    {"sessionId", "session_id", "device_id", "vehicle_id", "timestamp", "event_time",
     "location", "position_x", "position_y", "exit_position_x", "exit_position_y",
     "objectType", "object_type", "vehicle_type", "direction",
     "gps_location", "gps_latitude", "gps_longitude", "user_id", "is_public",
     "image_data", "event_type", "data"}

\* The body that holds the fields of o and nothing else.
Body(o) == [f \in Fields |-> IF f \in DOMAIN o THEN o[f] ELSE Undef]

\* A String path of a mongoose schema casts the value it is given.
CastString(v) == IF v.t \in {"undefined", "null"} THEN v ELSE Str(ToStr(v))

\* new Model({...}) under logSchema: paths the schema does not declare
\* (location) are dropped, isPublic defaults to false.
LogDoc(sessionId, timestamp, objectType, direction, gpsLocation, gpsLatitude, gpsLongitude, userId, isPublic) ==
    [sessionId |-> CastString(sessionId), timestamp |-> Str(timestamp),
     objectType |-> CastString(objectType), direction |-> CastString(direction),
     gpsLocation |-> CastString(gpsLocation), gpsLatitude |-> gpsLatitude,
     gpsLongitude |-> gpsLongitude, userId |-> CastString(userId),
     isPublic |-> IF isPublic.t = "undefined" THEN Bool(FALSE) ELSE isPublic]

\* new BusImage({...}) under busImageSchema.
BusImageDoc(sessionId, timestamp, imageData, deviceId, eventType, gpsLocation, gpsLatitude, gpsLongitude, userId, isPublic) ==
    [sessionId |-> CastString(sessionId), timestamp |-> Str(timestamp),
     imageData |-> CastString(imageData), objectType |-> Str("bus"),
     deviceId |-> CastString(deviceId), eventType |-> CastString(eventType),
     gpsLocation |-> CastString(gpsLocation), gpsLatitude |-> gpsLatitude,
     gpsLongitude |-> gpsLongitude, userId |-> CastString(userId),
     isPublic |-> isPublic]

\* A variant of the choice that compares the type as it is written, for
\* testing the properties that depend on the lower-casing.
ChooseModelExact(objectType) ==
    IF objectType.t # "string" THEN "TypeError"
    ELSE IF objectType.s = "bus" THEN "Bus"
    ELSE IF objectType.s \in {"car", "truck", "motorcycle", "cup"} THEN "Vehicle"
    ELSE "Other"

\* "Choose collection based on object type"; objectType.toLowerCase() throws
\* on a value that is not a string.
ChooseModel(objectType) ==
    IF objectType.t # "string" THEN "TypeError"
    ELSE IF ToLowerCase(objectType.s) = "bus" THEN "Bus"
    ELSE IF ToLowerCase(objectType.s) \in {"car", "truck", "motorcycle", "cup"}
    THEN "Vehicle"
    ELSE "Other"

\* `${sessionId}-${objectType}-${deviceId}-${timestamp.substring(0, 13)}`
objectKey(sessionId, objectType, deviceId, timestamp) ==
    ToStr(sessionId) \o "-" \o ToStr(objectType) \o "-" \o ToStr(deviceId)
    \o "-" \o Slice(timestamp, 0, 13)

\* `busimg-${sessionId}-${deviceId}-${timestamp.substring(0, 13)}`: built by
\* /bus-image and used by nothing.
imageKey(sessionId, deviceId, timestamp) ==
    "busimg-" \o ToStr(sessionId) \o "-" \o ToStr(deviceId) \o "-" \o Slice(timestamp, 0, 13)

\* `${sessionId}-bus-${deviceId}-${timestamp.substring(0, 13)}`
busTrackingKey(sessionId, deviceId, timestamp) ==
    ToStr(sessionId) \o "-bus-" \o ToStr(deviceId) \o "-" \o Slice(timestamp, 0, 13)

\* parseFloat(req.body.gps_latitude) || null
GpsCoordinate(v) == Or(parseFloat(v), Null)

\* A variant of the skip condition that does not look at the user id, for
\* testing the properties that depend on it.
MissingGps(gpsLocation, gpsLatitude, gpsLongitude, userId) ==
    \/ ~Truthy(gpsLocation)
    \/ gpsLocation = Str("unknown,unknown")
    \/ ~Truthy(gpsLatitude)
    \/ ~Truthy(gpsLongitude)

\* A variant of the skip condition that does not look at the coordinates,
\* for testing the properties that depend on them.
MissingLocationOrUser(gpsLocation, gpsLatitude, gpsLongitude, userId) ==
    \/ ~Truthy(gpsLocation)
    \/ gpsLocation = Str("unknown,unknown")
    \/ ~Truthy(userId)

\* The condition of "Skip if GPS data or user ID is missing".
MissingGpsOrUser(gpsLocation, gpsLatitude, gpsLongitude, userId) ==
    \/ ~Truthy(gpsLocation)
    \/ gpsLocation = Str("unknown,unknown")
    \/ ~Truthy(gpsLatitude)
    \/ ~Truthy(gpsLongitude)
    \/ ~Truthy(userId)

(***************************************************************************)
(* What the synchronous stretch of a handler comes to: a response (status  *)
(* and result), or a storage call to await; with the table it leaves and   *)
(* whether isRecentlyProcessed was called, on which key, and its answer.   *)
(***************************************************************************)
NoKey == ""

\* The texts of the responses: `message` of a 200, `error` of a 400 or 500
\* (that of a stored /logs request is followed by the collection's name).
ErrorMessage(ep) ==
    CASE ep = "logs" -> "Failed to store log"
      [] ep = "tracking" -> "Failed to store tracking data"
      [] ep = "upload-image" -> "Failed to process image upload"
      [] ep = "bus-image" -> "Failed to store bus image"

StoredMessage(ep) ==
    CASE ep = "logs" -> "Log stored successfully"
      [] ep = "tracking" -> "Tracking data stored successfully"
      [] ep = "upload-image" -> "Image data stored successfully"
      [] ep = "bus-image" -> "Bus image stored successfully"

DuplicateMessage(ep) ==
    CASE ep = "logs" -> "Duplicate log detected, ignoring"
      [] ep = "tracking" -> "Duplicate tracking data detected, ignoring"

MissingMessage == "Missing GPS data or user ID, skipping"

\* res.status(200).json({message, status: "skipped"})
Skipped(message, tbl, key, checked, dup) ==
    [pc |-> "done", status |-> 200, result |-> "skipped", message |-> message,
     tbl |-> tbl, key |-> key, checked |-> checked, dup |-> dup]

\* res.status(status).json({error: message}), from the catch block or the
\* 400 of /bus-image.
Failed(status, message, tbl, key, checked) ==
    [pc |-> "done", status |-> status, result |-> "error", message |-> message,
     tbl |-> tbl, key |-> key, checked |-> checked, dup |-> FALSE]

\* The handler is suspended at an await (pc) on the storage call for doc.
Await(pc, tbl, key, checked, coll, doc) ==
    [pc |-> pc, status |-> 0, result |-> "pending", message |-> "", tbl |-> tbl,
     key |-> key, checked |-> checked, dup |-> FALSE, coll |-> coll, doc |-> doc]

\* isRecentlyProcessed(key), then the choice of the collection (coll is
\* "TypeError" when objectType.toLowerCase() throws) and `await newLog.save()`:
\* the tail /logs and /tracking share.
CheckThenSave(ep, key, coll, doc, t, tbl) ==
    IF IsRecent(tbl, key, t)
    THEN Skipped(DuplicateMessage(ep), TableAfterCheck(tbl, key, t), key, TRUE, TRUE)
    ELSE IF coll = "TypeError"
    THEN Failed(500, ErrorMessage(ep), TableAfterCheck(tbl, key, t), key, TRUE)
    ELSE Await("save", TableAfterCheck(tbl, key, t), key, TRUE, coll, doc)

\* A variant of /logs that compares the object type with "bus" as it is
\* written, for testing the properties that depend on the lower-casing.
LogsRouteExact(sessionId, deviceId, timestamp, location, objectType, direction, t, tbl) ==
    IF location = Thrown \/ objectType.t # "string"
    THEN Failed(500, ErrorMessage("logs"), tbl, NoKey, FALSE)
    ELSE IF objectType.s = "bus"
    THEN Skipped("Bus logs are handled separately", tbl, NoKey, FALSE, FALSE)
    ELSE CheckThenSave("logs", objectKey(sessionId, objectType, deviceId, timestamp),
                       ChooseModel(objectType),
                       LogDoc(sessionId, timestamp, objectType, direction,
                              Undef, Undef, Undef, Undef, Undef),
                       t, tbl)

\* app.post('/logs') from line 170 on, with the constants of lines 158-168.
LogsRoute(sessionId, deviceId, timestamp, location, objectType, direction, t, tbl) ==
    IF location = Thrown \/ objectType.t # "string"
    THEN Failed(500, ErrorMessage("logs"), tbl, NoKey, FALSE)
    ELSE IF ToLowerCase(objectType.s) = "bus"
    THEN Skipped("Bus logs are handled separately", tbl, NoKey, FALSE, FALSE)
    ELSE CheckThenSave("logs", objectKey(sessionId, objectType, deviceId, timestamp),
                       ChooseModel(objectType),
                       LogDoc(sessionId, timestamp, objectType, direction,
                              Undef, Undef, Undef, Undef, Undef),
                       t, tbl)

\* app.post('/logs'), up to `await newLog.save()`.
LogsHandler(b, t, tbl) ==
    LogsRoute(Or(Or(b.sessionId, b.session_id), Str("unknown")),
              Or(Or(b.device_id, b.vehicle_id), Str("unknown")),
              formatTimestamp(Or(Or(b.timestamp, b.event_time), Str(toISOString(t))), t),
              formatLocation(b.location,
                             Or(b.position_x, b.exit_position_x),
                             Or(b.position_y, b.exit_position_y)),
              Or(Or(Or(b.objectType, b.object_type), b.vehicle_type), Str("unknown")),
              Or(b.direction, Str("unknown")),
              t, tbl)

\* A variant of /tracking that calls isRecentlyProcessed before it looks at
\* the GPS and user fields, for testing the properties that depend on the
\* order of the two.
TrackingRouteCheckFirst(sessionId, deviceId, timestamp, location, objectType, direction, gpsLocation, gpsLatitude, gpsLongitude, userId, isPublic, t, tbl) ==
    IF location = Thrown
    THEN Failed(500, ErrorMessage("tracking"), tbl, NoKey, FALSE)
    ELSE IF /\ ~IsRecent(tbl, objectKey(sessionId, objectType, deviceId, timestamp), t)
            /\ MissingGpsOrUser(gpsLocation, gpsLatitude, gpsLongitude, userId)
    THEN Skipped(MissingMessage,
                 TableAfterCheck(tbl, objectKey(sessionId, objectType, deviceId, timestamp), t),
                 NoKey, FALSE, FALSE)
    ELSE CheckThenSave("tracking", objectKey(sessionId, objectType, deviceId, timestamp),
                       ChooseModel(objectType),
                       LogDoc(sessionId, timestamp, objectType, direction,
                              gpsLocation, gpsLatitude, gpsLongitude, userId, isPublic),
                       t, tbl)

\* app.post('/tracking') from line 246 on, with the constants of lines 225-244.
TrackingRoute(sessionId, deviceId, timestamp, location, objectType, direction, gpsLocation, gpsLatitude, gpsLongitude, userId, isPublic, t, tbl) ==
    IF location = Thrown
    THEN Failed(500, ErrorMessage("tracking"), tbl, NoKey, FALSE)
    ELSE IF MissingGpsOrUser(gpsLocation, gpsLatitude, gpsLongitude, userId)
    THEN Skipped(MissingMessage, tbl, NoKey, FALSE, FALSE)
    ELSE CheckThenSave("tracking", objectKey(sessionId, objectType, deviceId, timestamp),
                       ChooseModel(objectType),
                       LogDoc(sessionId, timestamp, objectType, direction,
                              gpsLocation, gpsLatitude, gpsLongitude, userId, isPublic),
                       t, tbl)

\* app.post('/tracking'), up to `await newLog.save()`.
TrackingHandler(b, t, tbl) ==
    TrackingRoute(Or(b.session_id, Str("unknown")),
                  Or(Or(b.device_id, b.vehicle_id), Str("unknown")),
                  formatTimestamp(Or(b.timestamp, Str(toISOString(t))), t),
                  formatLocation(b.location,
                                 Or(b.position_x, b.exit_position_x),
                                 Or(b.position_y, b.exit_position_y)),
                  Or(Or(b.object_type, b.vehicle_type), Str("unknown")),
                  Or(b.direction, Str("unknown")),
                  Or(b.gps_location, Str("")),
                  GpsCoordinate(b.gps_latitude),
                  GpsCoordinate(b.gps_longitude),
                  Or(b.user_id, Str("")),
                  Bool(b.is_public = Bool(TRUE)),
                  t, tbl)

\* A string that is the JSON text of the object Body(o), and JSON.parse of a
\* string: the object, or a SyntaxError for a string that is no JSON text.
JsonText(o) == [t |-> "string", s |-> "{..}", json |-> Body(o)]
JSONparse(v) ==
    IF "json" \in DOMAIN v THEN [ok |-> TRUE, v |-> v.json]
    ELSE [ok |-> FALSE, v |-> Body(<<>>)]

\* app.post('/upload-image') from line 332 on: no call of isRecentlyProcessed.
UploadImageRoute(parsed, sessionId, objectType, timestamp, location, direction, tbl) ==
    IF ~parsed \/ location = Thrown \/ objectType.t # "string"
    THEN Failed(500, ErrorMessage("upload-image"), tbl, NoKey, FALSE)
    ELSE Await("save", tbl, NoKey, FALSE, ChooseModel(objectType),
               LogDoc(sessionId, timestamp, objectType, direction,
                      Undef, Undef, Undef, Undef, Undef))

\* Lines 322-330 and 356, on jsonData.
UploadImageFields(parsed, j, t, tbl) ==
    UploadImageRoute(parsed,
                     Or(j.session_id, Str("unknown")),
                     Or(Or(j.vehicle_type, j.object_type), Str("unknown")),
                     formatTimestamp(Or(j.timestamp, Str(toISOString(t))), t),
                     formatLocation(j.location,
                                    Or(j.position_x, j.exit_position_x),
                                    Or(j.position_y, j.exit_position_y)),
                     Or(j.direction, Str("unknown")),
                     tbl)

\* JSON.parse(req.body.data || '{}')
UploadImageParse(data) ==
    IF Truthy(data) THEN JSONparse(data) ELSE [ok |-> TRUE, v |-> Body(<<>>)]

\* app.post('/upload-image'), up to `await newLog.save()`.
UploadImageJson(p, t, tbl) == UploadImageFields(p.ok, p.v, t, tbl)
UploadImageHandler(b, t, tbl) == UploadImageJson(UploadImageParse(b.data), t, tbl)

\* app.post('/bus-image') from line 399 to `await BusImage.findOne(...)`.  The
\* awaited steps that follow keep the handler's locals.
BusImageRoute(sessionId, deviceId, timestamp, image_data, location, gpsLocation, gpsLatitude, gpsLongitude, userId, isPublic, eventType, tbl) ==
    IF location = Thrown
    THEN Failed(500, ErrorMessage("bus-image"), tbl, NoKey, FALSE)
    ELSE IF MissingGpsOrUser(gpsLocation, gpsLatitude, gpsLongitude, userId)
    THEN Skipped(MissingMessage, tbl, NoKey, FALSE, FALSE)
    ELSE IF ~Truthy(image_data)
    THEN Failed(400, "No image data provided", tbl, NoKey, FALSE)
    ELSE Await("findOne", tbl, NoKey, FALSE, "BusImage",
               [sessionId |-> sessionId, deviceId |-> deviceId,
                timestamp |-> timestamp, image_data |-> image_data,
                eventType |-> eventType, gpsLocation |-> gpsLocation,
                gpsLatitude |-> gpsLatitude, gpsLongitude |-> gpsLongitude,
                userId |-> userId, isPublic |-> isPublic])

\* app.post('/bus-image'), up to `await BusImage.findOne(...)`.
BusImageHandler(b, t, tbl) ==
    BusImageRoute(Or(b.session_id, Str("unknown")),
                  Or(b.device_id, Str("unknown")),
                  formatTimestamp(Or(b.timestamp, Str(toISOString(t))), t),
                  b.image_data,
                  formatLocation(b.location,
                                 Or(b.position_x, b.exit_position_x),
                                 Or(b.position_y, b.exit_position_y)),
                  Or(b.gps_location, Str("")),
                  GpsCoordinate(b.gps_latitude),
                  GpsCoordinate(b.gps_longitude),
                  Or(b.user_id, Str("")),
                  Bool(b.is_public = Bool(TRUE)),
                  Or(b.event_type, Str("unknown")),
                  tbl)

\* The document /bus-image saves to the BusImage collection.
NewBusImage(l) ==
    BusImageDoc(l.sessionId, l.timestamp, l.image_data, l.deviceId, l.eventType,
                l.gpsLocation, l.gpsLatitude, l.gpsLongitude, l.userId, l.isPublic)

\* A variant of the tracking entry whose direction does not follow the
\* event type, for testing the properties that depend on it.
NewBusTrackingUnknown(l) ==
    LogDoc(l.sessionId, l.timestamp, Str("bus"), Str("unknown"),
           l.gpsLocation, l.gpsLatitude, l.gpsLongitude, l.userId, l.isPublic)

\* The tracking entry /bus-image saves to the Bus collection.
NewBusTracking(l) ==
    LogDoc(l.sessionId, l.timestamp, Str("bus"),
           IF l.eventType = Str("exit") THEN Str("outbound") ELSE Str("inbound"),
           l.gpsLocation, l.gpsLatitude, l.gpsLongitude, l.userId, l.isPublic)

\* BusImage.findOne({sessionId, deviceId, timestamp}) finds a document.
ExistingImage(st, l) ==
    \E e \in st : /\ e.coll = "BusImage"
                  /\ e.doc.sessionId = CastString(l.sessionId)
                  /\ e.doc.deviceId = CastString(l.deviceId)
                  /\ e.doc.timestamp = Str(l.timestamp)

(***************************************************************************)
(* The state.                                                              *)
(*   now            Date.now()                                             *)
(*   recentObjects  the Map of line 76                                     *)
(*   store          the documents of the collections Bus, Vehicle, Other   *)
(*                  and BusImage, each with the request that inserted it   *)
(*                  and the instant of the insert                          *)
(*   inflight       the handlers suspended at an await                     *)
(*   nextId         the number of the next request                         *)
(*   log            per request: endpoint, body, arrival and the requests  *)
(*                  in flight then; the call of isRecentlyProcessed it     *)
(*                  made (key, instant, the key's last-seen time before    *)
(*                  the call, the answer); the location the handler        *)
(*                  computed; the inserts it has started and the storage   *)
(*                  call of its that failed, if any; and the response      *)
(*   cleanup        the collection whose deleteMany the startup cleanup    *)
(*                  awaits ("done" once it has returned), with the records *)
(*                  its deleteMany calls removed and those they left       *)
(***************************************************************************)
\* The instants at which something happens, the first being the start.
Instants == <<40000, 49999, 50000, 59999, 60000, 69999, 70000, 70001>>

\* The last-seen time of key in tbl, -1 when tbl does not hold it.
LastSeen(tbl, key) == IF key \in DOMAIN tbl THEN tbl[key] ELSE -1

\* cleanupIncompleteEntries has returned, having found nothing.
CleanupDone == [pc |-> "done", removed |-> {}, kept |-> {}]

\* The server listening on an empty database, the cleanup at startup over.
Init ==
    /\ now = Instants[1]
    /\ recentObjects = EmptyTable
    /\ store = {}
    /\ inflight = <<>>
    /\ nextId = 1
    /\ log = <<>>
    /\ cleanup = CleanupDone

Without(f, id) == [k \in DOMAIN f \ {id} |-> f[k]]
With(f, id, v) == [k \in DOMAIN f \cup {id} |-> IF k = id THEN v ELSE f[k]]

\* The location a handler computes from the fields of r (req.body, or
\* jsonData in /upload-image).
LocationOf(r) ==
    formatLocation(r.location,
                   Or(r.position_x, r.exit_position_x),
                   Or(r.position_y, r.exit_position_y))

\* The parsed jsonData's location, when JSON.parse did not throw.
ParsedLocation(p) == IF p.ok THEN LocationOf(p.v) ELSE Thrown

RequestLocation(ep, b) ==
    IF ep = "upload-image" THEN ParsedLocation(UploadImageParse(b.data))
    ELSE LocationOf(b)

\* The storage call op that request id awaited has failed: the catch block
\* answers 500.
RespondFault(id, op) ==
    log' = [log EXCEPT ![id].status = 500, ![id].result = "error",
                       ![id].message = ErrorMessage(log[id].ep),
                       ![id].fault = op]

\* res.status(status).json(...)
Respond(id, status, result, message) ==
    log' = [log EXCEPT ![id].status = status, ![id].result = result,
                       ![id].message = message]

\* A request with body b arrives at endpoint ep and its handler runs to its
\* first await or response: out.
Request(ep, b, out) ==
    /\ nextId <= MaxReq
    /\ nextId' = nextId + 1
    /\ recentObjects' = out.tbl
    /\ log' = Append(log, [ep |-> ep, body |-> b, at |-> now,
                           with |-> DOMAIN inflight, key |-> out.key,
                           checked |-> out.checked, dup |-> out.dup,
                           checkedAt |-> now,
                           prior |-> LastSeen(recentObjects, out.key),
                           location |-> RequestLocation(ep, b),
                           saves |-> IF out.pc = "save" THEN 1 ELSE 0,
                           fault |-> "",
                           status |-> out.status, result |-> out.result,
                           message |-> out.message])
    /\ inflight' = IF out.pc = "done" THEN inflight
                   ELSE With(inflight, nextId,
                             [pc |-> out.pc, coll |-> out.coll, doc |-> out.doc])
    /\ UNCHANGED <<now, store, cleanup>>

\* POST /logs, /tracking, /upload-image, /bus-image with a body of B.
Logs(B) == \E b \in B : Request("logs", b, LogsHandler(b, now, recentObjects))
Tracking(B) == \E b \in B : Request("tracking", b, TrackingHandler(b, now, recentObjects))
UploadImage(B) ==
    \E b \in B : Request("upload-image", b, UploadImageHandler(b, now, recentObjects))
BusImage(B) == \E b \in B : Request("bus-image", b, BusImageHandler(b, now, recentObjects))

\* A variant of the settling of `await newLog.save()` in which the document
\* is in the collection even when the insert is reported failed, for testing
\* the properties that depend on a failed insert leaving nothing behind.
SaveSettlesKeeps ==
    \E id \in DOMAIN inflight, ok \in BOOLEAN :
        /\ inflight[id].pc = "save"
        /\ store' = store \cup {[coll |-> inflight[id].coll, req |-> id,
                                  at |-> now, doc |-> inflight[id].doc]}
        /\ IF ok THEN Respond(id, 200, "stored", StoredMessage(log[id].ep))
           ELSE RespondFault(id, "save")
        /\ inflight' = Without(inflight, id)
        /\ UNCHANGED <<now, recentObjects, nextId, cleanup>>

\* A variant of the settling of `await newLog.save()` in which the catch
\* block takes the request's fingerprint out of the table, for testing the
\* properties that depend on a failed insert leaving it there.
SaveSettlesForgets ==
    \E id \in DOMAIN inflight, ok \in BOOLEAN :
        /\ inflight[id].pc = "save"
        /\ store' = IF ok
                    THEN store \cup {[coll |-> inflight[id].coll, req |-> id,
                                      at |-> now, doc |-> inflight[id].doc]}
                    ELSE store
        /\ IF ok THEN Respond(id, 200, "stored", StoredMessage(log[id].ep))
           ELSE RespondFault(id, "save")
        /\ recentObjects' = IF ok THEN recentObjects
                            ELSE Without(recentObjects, log[id].key)
        /\ inflight' = Without(inflight, id)
        /\ UNCHANGED <<now, nextId, cleanup>>

\* `await newLog.save()` of /logs, /tracking and /upload-image settles: the
\* document is inserted and the request answered 200, or the insert fails
\* and the catch block answers 500.
SaveSettles ==
    \E id \in DOMAIN inflight, ok \in BOOLEAN :
        /\ inflight[id].pc = "save"
        /\ store' = IF ok
                    THEN store \cup {[coll |-> inflight[id].coll, req |-> id,
                                      at |-> now, doc |-> inflight[id].doc]}
                    ELSE store
        /\ IF ok THEN Respond(id, 200, "stored", StoredMessage(log[id].ep))
           ELSE RespondFault(id, "save")
        /\ inflight' = Without(inflight, id)
        /\ UNCHANGED <<now, recentObjects, nextId, cleanup>>

\* `await BusImage.findOne(...)` settles.
FindOneSettles ==
    \E id \in DOMAIN inflight, ok \in BOOLEAN :
        /\ inflight[id].pc = "findOne"
        /\ IF ~ok
           THEN /\ RespondFault(id, "findOne")
                /\ inflight' = Without(inflight, id)
           ELSE IF ExistingImage(store, inflight[id].doc)
           THEN /\ Respond(id, 200, "skipped", "Bus image already exists")
                /\ inflight' = Without(inflight, id)
           ELSE /\ inflight' = [inflight EXCEPT ![id].pc = "saveImage"]
                /\ log' = [log EXCEPT ![id].saves = @ + 1]
        /\ UNCHANGED <<now, recentObjects, store, nextId, cleanup>>

\* `await newBusImage.save()` settles; on success the handler goes on to
\* isRecentlyProcessed(busTrackingKey) and, unless it answers true, to
\* `await newBusTracking.save()`.
SaveImageSettles ==
    \E id \in DOMAIN inflight, ok \in BOOLEAN :
        LET l == inflight[id].doc
            key == busTrackingKey(l.sessionId, l.deviceId, l.timestamp)
            dup == IsRecent(recentObjects, key, now)
        IN /\ inflight[id].pc = "saveImage"
           /\ IF ~ok
              THEN /\ RespondFault(id, "saveImage")
                   /\ inflight' = Without(inflight, id)
                   /\ UNCHANGED <<recentObjects, store>>
              ELSE /\ store' = store \cup {[coll |-> "BusImage", req |-> id,
                                            at |-> now, doc |-> NewBusImage(l)]}
                   /\ recentObjects' = TableAfterCheck(recentObjects, key, now)
                   /\ log' = [log EXCEPT
                                ![id].key = key, ![id].checked = TRUE,
                                ![id].dup = dup, ![id].checkedAt = now,
                                ![id].prior = LastSeen(recentObjects, key),
                                ![id].saves = IF dup THEN @ ELSE @ + 1,
                                ![id].status = IF dup THEN 200 ELSE @,
                                ![id].result = IF dup THEN "stored" ELSE @,
                                ![id].message =
                                    IF dup THEN StoredMessage("bus-image") ELSE @]
                   /\ inflight' = IF dup THEN Without(inflight, id)
                                  ELSE [inflight EXCEPT ![id].pc = "saveTracking"]
           /\ UNCHANGED <<now, nextId, cleanup>>

\* A variant of the settling of `await newBusTracking.save()` in which the
\* key's time is set again whether or not the insert succeeded.
SaveTrackingSettlesAlways ==
    \E id \in DOMAIN inflight, ok \in BOOLEAN :
        LET l == inflight[id].doc
        IN /\ inflight[id].pc = "saveTracking"
           /\ recentObjects' = TableSet(recentObjects, log[id].key, now)
           /\ IF ~ok
              THEN /\ RespondFault(id, "saveTracking")
                   /\ UNCHANGED store
              ELSE /\ store' = store \cup {[coll |-> "Bus", req |-> id,
                                            at |-> now, doc |-> NewBusTracking(l)]}
                   /\ Respond(id, 200, "stored", StoredMessage("bus-image"))
           /\ inflight' = Without(inflight, id)
           /\ UNCHANGED <<now, nextId, cleanup>>

\* A variant of the settling of `await newBusTracking.save()` in which a
\* failed insert takes the request's image out of the store again, for
\* testing the properties that depend on the image staying.
SaveTrackingSettlesUndoes ==
    \E id \in DOMAIN inflight, ok \in BOOLEAN :
        LET l == inflight[id].doc
        IN /\ inflight[id].pc = "saveTracking"
           /\ IF ~ok
              THEN /\ RespondFault(id, "saveTracking")
                   /\ store' = {e \in store : e.req # id}
                   /\ UNCHANGED recentObjects
              ELSE /\ store' = store \cup {[coll |-> "Bus", req |-> id,
                                            at |-> now, doc |-> NewBusTracking(l)]}
                   /\ recentObjects' = TableSet(recentObjects, log[id].key, now)
                   /\ Respond(id, 200, "stored", StoredMessage("bus-image"))
           /\ inflight' = Without(inflight, id)
           /\ UNCHANGED <<now, nextId, cleanup>>

\* `await newBusTracking.save()` settles; on success the handler sets the
\* key's time again and answers.
SaveTrackingSettles ==
    \E id \in DOMAIN inflight, ok \in BOOLEAN :
        LET l == inflight[id].doc
        IN /\ inflight[id].pc = "saveTracking"
           /\ IF ~ok
              THEN /\ RespondFault(id, "saveTracking")
                   /\ UNCHANGED <<recentObjects, store>>
              ELSE /\ store' = store \cup {[coll |-> "Bus", req |-> id,
                                            at |-> now, doc |-> NewBusTracking(l)]}
                   /\ recentObjects' = TableSet(recentObjects, log[id].key, now)
                   /\ Respond(id, 200, "stored", StoredMessage("bus-image"))
           /\ inflight' = Without(inflight, id)
           /\ UNCHANGED <<now, nextId, cleanup>>

\* Time passes.
Tick ==
    \E i \in 1..Min(MaxTick, Len(Instants)) :
        /\ Instants[i] > now
        /\ now' = Instants[i]
        /\ UNCHANGED <<recentObjects, store, inflight, nextId, log, cleanup>>

(***************************************************************************)
(* The requests of the specification Spec: one session and one device,     *)
(* timestamps left to the server (so every key falls in the clock's hour), *)
(* GPS and user fields as the mobile client fills them.                    *)
(***************************************************************************)
Event(objectType) ==
    [session_id |-> Str("s1"), device_id |-> Str("d1"), object_type |-> Str(objectType)]

Gps(lat, lon) ==
    [gps_location |-> Str("53,-6"), gps_latitude |-> lat, gps_longitude |-> lon,
     user_id |-> Str("u1")]

LogsBodies == {Body(Event("car"))}

TrackingBodies ==
    {Body(Event("car") @@ Gps(Num(53), Num(-6))),
     Body(Event("bus") @@ Gps(Num(53), Num(-6)))}

UploadImageBodies == {Body([data |-> JsonText(Event("car"))])}

BusImageBodies ==
    {Body(Event("bus") @@ Gps(Num(53), Num(-6)) @@ [image_data |-> Str("aW1n")])}

Next ==
    \/ Logs(LogsBodies)
    \/ Tracking(TrackingBodies)
    \/ UploadImage(UploadImageBodies)
    \/ BusImage(BusImageBodies)
    \/ SaveSettles
    \/ FindOneSettles
    \/ SaveImageSettles
    \/ SaveTrackingSettles
    \/ Tick

Spec == Init /\ [][Next]_vars

(***************************************************************************)
(* Vocabulary of the properties.                                           *)
(***************************************************************************)
\* The endpoints that call isRecentlyProcessed on the event's fingerprint.
Generic == {"logs", "tracking"}

\* The collections of event records.
Events == {"Bus", "Vehicle", "Other"}

\* Request i called isRecentlyProcessed and was told false.
Admitted(i) == log[i].checked /\ ~log[i].dup

\* The records request i inserted.
Inserted(i) == {e \in store : e.req = i}

\* Request i has been answered.
Answered(i) == log[i].status # 0

\* Requests i and j reached isRecentlyProcessed with the same fingerprint, i
\* first, and both came through /logs or /tracking.
SameFingerprint(i, j) ==
    /\ i < j
    /\ log[i].ep \in Generic /\ log[j].ep \in Generic
    /\ log[i].checked /\ log[j].checked
    /\ log[j].key = log[i].key

\* Request j reached isRecentlyProcessed when its fingerprint had last been
\* recorded DedupWindow or more before.
Stale(j) ==
    /\ log[j].checked
    /\ log[j].prior >= 0
    /\ log[j].checkedAt - log[j].prior >= DedupWindow

\* Request j calls isRecentlyProcessed in this step.
ChecksNow(j) == log'[j].checked /\ (j \in DOMAIN log => ~log[j].checked)

(***************************************************************************)
(* C1: when two requests to /logs or /tracking yield the same fingerprint  *)
(* and the second is checked less than 10000 ms after the first was        *)
(* admitted, the second is answered 200 "skipped" and inserts nothing.     *)
(***************************************************************************)
C1_SecondIsSkipped ==
    \A i, j \in DOMAIN log :
        (/\ SameFingerprint(i, j)
         /\ Admitted(i)
         /\ log[j].checkedAt - log[i].checkedAt < DedupWindow)
        => /\ log[j].dup
           /\ log[j].status = 200
           /\ log[j].result = "skipped"
           /\ Inserted(j) = {}

\* The first request was persisted and the second, arriving later but within
\* the window, was skipped.
C1_Witness ==
    \E i, j \in DOMAIN log :
        /\ SameFingerprint(i, j)
        /\ Admitted(i)
        /\ Inserted(i) # {}
        /\ log[j].at > log[i].at
        /\ log[j].checkedAt - log[i].checkedAt < DedupWindow
        /\ log[j].result = "skipped"

(***************************************************************************)
(* C2: a request whose fingerprint was last recorded 10000 ms or more      *)
(* before, exactly 10000 included, is not a duplicate: the call records    *)
(* the present instant as the fingerprint's last-seen time, the handler    *)
(* goes on to the insert, and unless the insert fails the record is        *)
(* persisted.                                                              *)
(***************************************************************************)
C2_StaleIsPersisted ==
    \A j \in DOMAIN log :
        Stale(j) =>
            /\ ~log[j].dup
            /\ log[j].result # "skipped"
            /\ ~Answered(j) =>
                   /\ j \in DOMAIN inflight
                   /\ inflight[j].pc \in {"save", "saveTracking"}
            /\ (Answered(j) /\ log[j].status # 500) =>
                   /\ log[j].status = 200
                   /\ \E e \in Inserted(j) : e.coll \in Events

C2_StaleIsRecorded ==
    \A j \in DOMAIN log' :
        (ChecksNow(j) /\ Stale(j)') =>
            /\ log'[j].key \in DOMAIN recentObjects'
            /\ recentObjects'[log'[j].key] = now

C2_StaleAdmitted == []C2_StaleIsPersisted /\ [][C2_StaleIsRecorded]_vars

\* A request arrived exactly DedupWindow after its fingerprint was recorded,
\* was persisted, and its arrival is the fingerprint's last-seen time.
C2_Witness ==
    \E j \in DOMAIN log :
        /\ log[j].ep \in Generic
        /\ Stale(j)
        /\ log[j].checkedAt - log[j].prior = DedupWindow
        /\ log[j].result = "stored"
        /\ Inserted(j) # {}
        /\ recentObjects[log[j].key] = log[j].at

(***************************************************************************)
(* C3: no two persisted event records with the same fingerprint (session,  *)
(* object type, device, hour) were inserted less than 10000 ms apart,      *)
(* through whichever of the four endpoints they came.                      *)
(***************************************************************************)
\* The fingerprint of a persisted event record, the device being the one
\* named by the request that inserted it.
Fingerprint(e) ==
    objectKey(e.doc.sessionId, e.doc.objectType,
              Or(Or(log[e.req].body.device_id, log[e.req].body.vehicle_id),
                 Str("unknown")),
              e.doc.timestamp.s)

C3_NoTwoWithinWindow ==
    \A e1, e2 \in store :
        (/\ e1 # e2
         /\ e1.coll \in Events /\ e2.coll \in Events
         /\ Fingerprint(e1) = Fingerprint(e2)
         /\ e1.at <= e2.at)
        => e2.at - e1.at >= DedupWindow

(***************************************************************************)
(* C4: a call of isRecentlyProcessed that finds the fingerprint recorded   *)
(* less than 10000 ms before reports a duplicate and leaves the table as   *)
(* it was: the fingerprint's last-seen time is not refreshed.              *)
(***************************************************************************)
C4_DuplicateStep ==
    \A j \in DOMAIN log' :
        (/\ ChecksNow(j)
         /\ log'[j].key \in DOMAIN recentObjects
         /\ now - recentObjects[log'[j].key] < DedupWindow)
        => /\ log'[j].dup
           /\ recentObjects' = recentObjects

C4_DuplicateLeavesTable == [][C4_DuplicateStep]_vars

\* A duplicate was reported later than the fingerprint was recorded, and the
\* table still holds the earlier time.
C4_Witness ==
    \E j \in DOMAIN log :
        /\ log[j].checked /\ log[j].dup
        /\ log[j].prior >= 0
        /\ log[j].checkedAt > log[j].prior
        /\ recentObjects[log[j].key] = log[j].prior

(***************************************************************************)
(* C5: isRecentlyProcessed checks and records a fingerprint in one         *)
(* uninterrupted step, before the handler's first await.  So a request     *)
(* to /logs or /tracking that waits for its insert has its fingerprint     *)
(* recorded, and of two requests with one fingerprint handled              *)
(* concurrently, the second arriving less than 10000 ms after the first    *)
(* passed the check, the second is reported a duplicate and inserts        *)
(* nothing: at most one of them is persisted.                              *)
(***************************************************************************)
\* Request i was waiting for its insert when request j arrived.
Concurrent(i, j) == SameFingerprint(i, j) /\ i \in log[j].with

C8_IndependentFingerprint ==
    /\ \A j \in DOMAIN log :
           (log[j].ep = "bus-image" /\ log[j].checked /\ log[j].dup) =>
               \E i \in DOMAIN log :
                   /\ i # j
                   /\ log[i].ep = "bus-image"
                   /\ Admitted(i)
                   /\ log[i].key = log[j].key
                   /\ log[i].checkedAt <= log[j].checkedAt
    /\ \A j \in DOMAIN log :
           (log[j].ep \in Generic /\ log[j].checked /\ log[j].dup) =>
               \E i \in DOMAIN log :
                   /\ SameFingerprint(i, j)
                   /\ Admitted(i)

(***************************************************************************)
(* The specification SpecSweep: /logs and /tracking on a table that holds  *)
(* SweepSize fingerprints of earlier sessions, recorded just more than,    *)
(* exactly, and just less than SweepAge before the start, and one          *)
(* millisecond before it.  The next new fingerprint makes the table        *)
(* larger than SweepSize.                                                  *)
(***************************************************************************)
FillerKey(i) ==
    objectKey(Str("f" \o ToString(i)), Str("car"), Str("d1"), Canonical(Instants[1]))

FillerTime(i) ==
    CASE i % 4 = 0 -> Instants[1] - SweepAge - 1
      [] i % 4 = 1 -> Instants[1] - SweepAge
      [] i % 4 = 2 -> Instants[1] - SweepAge + 1
      [] i % 4 = 3 -> Instants[1] - 1

FilledTable ==
    [k \in {FillerKey(i) : i \in 1..SweepSize} |->
        FillerTime(CHOOSE i \in 1..SweepSize : FillerKey(i) = k)]

InitSweep ==
    /\ now = Instants[1]
    /\ recentObjects = FilledTable
    /\ store = {}
    /\ inflight = <<>>
    /\ nextId = 1
    /\ log = <<>>
    /\ cleanup = CleanupDone

NextSweep ==
    \/ Logs(LogsBodies)
    \/ Tracking(TrackingBodies)
    \/ SaveSettles
    \/ Tick

SpecSweep == InitSweep /\ [][NextSweep]_vars

(***************************************************************************)
(* C6: when a call of isRecentlyProcessed that reports no duplicate has    *)
(* recorded its fingerprint and the table then holds more than 100         *)
(* entries, the sweep removes every entry whose age (now - lastSeen) is    *)
(* greater than 30000 ms and no other: an entry aged exactly 30000 ms is   *)
(* still in the table when the call returns.                               *)
(***************************************************************************)
\* Request j's call of isRecentlyProcessed, made in this step, reports no
\* duplicate and makes the table larger than SweepSize.
SweepsNow(j) ==
    /\ ChecksNow(j)
    /\ ~log'[j].dup
    /\ Cardinality(DOMAIN recentObjects \cup {log'[j].key}) > SweepSize

C6_SweepStep ==
    \A j \in DOMAIN log' :
        SweepsNow(j) =>
            /\ \A k \in DOMAIN recentObjects' : ~(now - recentObjects'[k] > SweepAge)
            /\ \A k \in DOMAIN recentObjects \ {log'[j].key} :
                   now - recentObjects[k] <= SweepAge =>
                       /\ k \in DOMAIN recentObjects'
                       /\ recentObjects'[k] = recentObjects[k]
            /\ log'[j].key \in DOMAIN recentObjects'
            /\ recentObjects'[log'[j].key] = now

C6_SweepRemovesOlder == [][C6_SweepStep]_vars

\* A sweep has run at the latest call (the table is smaller than it was at
\* the start), and an entry aged exactly SweepAge at that call is in the table.
C6_Witness ==
    /\ Cardinality(DOMAIN recentObjects) < SweepSize
    /\ \E j \in DOMAIN log :
           /\ Admitted(j)
           /\ log[j].checkedAt = now
           /\ \E k \in DOMAIN recentObjects : now - recentObjects[k] = SweepAge

\* C6 as stated: after such a call no entry aged SweepAge or more remains.
C6_SweepStepInclusive ==
    \A j \in DOMAIN log' :
        SweepsNow(j) =>
            \A k \in DOMAIN recentObjects' : ~(now - recentObjects'[k] >= SweepAge)

C6_SweepRemovesFromAge == [][C6_SweepStepInclusive]_vars

(***************************************************************************)
(* The specification SpecGate: /tracking and /bus-image with the GPS and   *)
(* user fields present, absent, empty, unparseable and zero, one field     *)
(* varied at a time from a submission that has them all.                   *)
(***************************************************************************)
Located == Gps(Num(53), Num(-6))

\* record r without the field f
Except(r, f) == [k \in DOMAIN r \ {f} |-> r[k]]

\* record r with the field f set to v
Having(r, f, v) == [k \in DOMAIN r |-> IF k = f THEN v ELSE r[k]]

GateFields ==
    {Located,
     Gps(Str("53"), Str("-6")),
     Except(Located, "gps_location"),
     Having(Located, "gps_location", Str("")),
     Having(Located, "gps_location", Str("unknown,unknown")),
     Except(Located, "gps_latitude"),
     Having(Located, "gps_latitude", Str("abc")),
     Having(Located, "gps_latitude", Null),
     Having(Located, "gps_latitude", Num(0)),
     Having(Located, "gps_latitude", Str("0")),
     Except(Located, "gps_longitude"),
     Having(Located, "gps_longitude", Str("abc")),
     Having(Located, "gps_longitude", Num(0)),
     Except(Located, "user_id"),
     Having(Located, "user_id", Str(""))}

GateTrackingBodies == {Body(Event("car") @@ g) : g \in GateFields}

GateBusImageBodies ==
    {Body(Event("bus") @@ g @@ [image_data |-> Str("aW1n")]) : g \in GateFields}

NextGate ==
    \/ Tracking(GateTrackingBodies)
    \/ BusImage(GateBusImageBodies)
    \/ SaveSettles
    \/ FindOneSettles
    \/ SaveImageSettles
    \/ SaveTrackingSettles

SpecGate == Init /\ [][NextGate]_vars

\* The endpoints that require GPS and a user.
GpsBearing == {"tracking", "bus-image"}

\* A submitted coordinate that is absent or that parseFloat cannot parse.
Unparseable(v) == v = Undef \/ parseFloat(v) = NaN

\* gps_location is empty or "unknown,unknown", a coordinate is absent or
\* unparseable, or user_id is empty.
GpsOrUserMissing(b) ==
    \/ b.gps_location \in {Undef, Str(""), Str("unknown,unknown")}
    \/ Unparseable(b.gps_latitude)
    \/ Unparseable(b.gps_longitude)
    \/ b.user_id \in {Undef, Str("")}

(***************************************************************************)
(* C7: a /bus-image request with valid GPS, user id and image data, for    *)
(* which no BusImage of the same session, device and timestamp exists,     *)
(* persists exactly two records, one BusImage and one Bus tracking entry,  *)
(* when its tracking fingerprint is no recent duplicate, and exactly one,  *)
(* the BusImage, when that fingerprint was recorded less than 10000 ms     *)
(* before.  (Requests whose storage calls failed are left aside.)          *)
(***************************************************************************)
C7_TwoRecordsOrOne ==
    \A j \in DOMAIN log :
        (/\ log[j].ep = "bus-image"
         /\ ~GpsOrUserMissing(log[j].body)
         /\ Truthy(log[j].body.image_data)
         /\ Answered(j)
         /\ log[j].status # 500
         /\ log[j].message # "Bus image already exists")
        => IF log[j].checked /\ log[j].prior >= 0
              /\ log[j].checkedAt - log[j].prior < DedupWindow
           THEN {e.coll : e \in Inserted(j)} = {"BusImage"}
                /\ Cardinality(Inserted(j)) = 1
           ELSE {e.coll : e \in Inserted(j)} = {"BusImage", "Bus"}
                /\ Cardinality(Inserted(j)) = 2

(***************************************************************************)
(* C9: a /tracking or /bus-image request whose gps_location is empty or    *)
(* "unknown,unknown", whose gps_latitude or gps_longitude is absent or     *)
(* unparseable, or whose user_id is empty is answered 200 "skipped" at     *)
(* once and inserts nothing.                                               *)
(***************************************************************************)
C9_MissingIsSkipped ==
    \A j \in DOMAIN log :
        (log[j].ep \in GpsBearing /\ GpsOrUserMissing(log[j].body)) =>
            /\ log[j].status = 200
            /\ log[j].result = "skipped"
            /\ log[j].message = MissingMessage
            /\ j \notin DOMAIN inflight
            /\ Inserted(j) = {}

\* A /tracking request without gps_latitude and a /bus-image request with
\* an empty user_id have both been skipped.
C9_Witness ==
    \E i, j \in DOMAIN log :
        /\ log[i].ep = "tracking"
        /\ log[i].body.gps_latitude = Undef
        /\ log[i].result = "skipped"
        /\ log[j].ep = "bus-image"
        /\ log[j].body.user_id = Str("")
        /\ log[j].result = "skipped"
        /\ store = {}

(***************************************************************************)
(* C10: in /tracking and /bus-image a coordinate becomes null exactly      *)
(* when the submitted value is absent or unparseable; a parseable          *)
(* coordinate, 0 included, is kept as its number and does not make the     *)
(* handler skip the submission.                                            *)
(***************************************************************************)
\* What the coordinate submitted as v is to become.
Coordinate(v) == IF Unparseable(v) THEN Null ELSE parseFloat(v)

C10_ZeroIsACoordinate ==
    \A j \in DOMAIN log :
        log[j].ep \in GpsBearing =>
            /\ ~GpsOrUserMissing(log[j].body) => log[j].message # MissingMessage
            /\ \A e \in Inserted(j) :
                   /\ e.doc.gpsLatitude = Coordinate(log[j].body.gps_latitude)
                   /\ e.doc.gpsLongitude = Coordinate(log[j].body.gps_longitude)

(***************************************************************************)
(* The specification SpecLocation: the four endpoints with the location    *)
(* and position fields present, absent, and holding the texts a client     *)
(* gets from formatting a missing value ("null", "undefined").             *)
(***************************************************************************)
\* {session_id: "s1", vehicle_type: "car", position_x: 3, position_y: 4}
CarAt34 ==
    [session_id |-> Str("s1"), vehicle_type |-> Str("car"),
     position_x |-> Num(3), position_y |-> Num(4)]

Coordinates ==
    [gps_latitude |-> Num(53), gps_longitude |-> Num(-6), user_id |-> Str("u1")]

\* The location and position fields of a payload.
PlaceFields ==
    {<<>>,
     [location |-> Str("5,6")],
     [location |-> Str("5,6"), position_x |-> Num(1), position_y |-> Num(2)],
     [location |-> Str("")],
     [location |-> Str("null,null")],
     [location |-> Str("undefined,undefined")],
     [location |-> Null, position_x |-> Num(3), position_y |-> Num(4)],
     [location |-> Str("null,null"), position_x |-> Num(3), position_y |-> Num(4)],
     [position_x |-> Num(3)],
     [position_x |-> Num(0), position_y |-> Num(4)],
     [position_x |-> Null, position_y |-> Null],
     [exit_position_x |-> Num(7), exit_position_y |-> Num(8)],
     [position_x |-> Num(3), exit_position_y |-> Num(8)],
     [position_x |-> Str("null"), position_y |-> Str("null")],
     [position_x |-> Str("undefined"), position_y |-> Num(4)]}

PlaceLogsBodies == {Body(Event("car") @@ f) : f \in PlaceFields}

PlaceTrackingBodies ==
    {Body(CarAt34),
     Body(CarAt34 @@ Coordinates),
     Body(CarAt34 @@ Coordinates @@ [gps_location |-> Str("53,-6")])}

PlaceUploadBodies ==
    {Body([data |-> JsonText(Event("car") @@ f)]) :
        f \in {<<>>, [location |-> Str("5,6")],
               [position_x |-> Str("null"), position_y |-> Str("null")]}}

PlaceBusImageBodies ==
    {Body(Event("bus") @@ Located @@ [image_data |-> Str("aW1n")] @@ f) :
        f \in {<<>>, [position_x |-> Num(3), position_y |-> Num(4)]}}

NextLocation ==
    \/ Logs(PlaceLogsBodies)
    \/ Tracking(PlaceTrackingBodies)
    \/ UploadImage(PlaceUploadBodies)
    \/ BusImage(PlaceBusImageBodies)
    \/ SaveSettles
    \/ FindOneSettles
    \/ SaveImageSettles
    \/ SaveTrackingSettles

SpecLocation == Init /\ [][NextLocation]_vars

(***************************************************************************)
(* C11: from an empty table and store, the /tracking request               *)
(* {session_id: "s1", vehicle_type: "car", position_x: 3, position_y: 4}   *)
(* without GPS and user fields is skipped and persists nothing; the same   *)
(* payload sent next with valid gps_latitude, gps_longitude and user_id    *)
(* is stored as one record of the Vehicle collection whose location field  *)
(* is "3,4".  (A request whose insert failed is left aside.)               *)
(***************************************************************************)
\* Body b is the payload of C11 with whatever GPS and user fields.
IsCarAt34(b) ==
    /\ b.session_id = Str("s1") /\ b.vehicle_type = Str("car")
    /\ b.position_x = Num(3) /\ b.position_y = Num(4)
    /\ b.location = Undef

C11_SkippedThenStored ==
    \A i, j \in DOMAIN log :
        (/\ i = 1 /\ j = 2
         /\ log[i].ep = "tracking" /\ log[j].ep = "tracking"
         /\ IsCarAt34(log[i].body) /\ IsCarAt34(log[j].body)
         /\ log[i].body.gps_latitude = Undef /\ log[i].body.user_id = Undef
         /\ ~Unparseable(log[j].body.gps_latitude)
         /\ ~Unparseable(log[j].body.gps_longitude)
         /\ Truthy(log[j].body.user_id)
         /\ log[j].fault = "")
        => /\ log[i].result = "skipped" /\ Inserted(i) = {}
           /\ log[j].result # "skipped"
           /\ Answered(j) =>
                  /\ log[j].result = "stored"
                  /\ Cardinality(Inserted(j)) = 1
                  /\ \A e \in Inserted(j) :
                         /\ e.coll = "Vehicle"
                         /\ "location" \in DOMAIN e.doc
                         /\ e.doc.location = Str("3,4")

(***************************************************************************)
(* C16: the location a handler computes for an ingestion request,          *)
(* whatever the location, position_x, position_y, exit_position_x and      *)
(* exit_position_y of the payload, is never empty, never "null,null" and   *)
(* never holds the text "undefined".                                       *)
(***************************************************************************)
C16_LocationWellFormed ==
    \A j \in DOMAIN log :
        /\ log[j].location # Thrown
        /\ log[j].location.t = "string"
        /\ log[j].location.s # ""
        /\ log[j].location.s # "null,null"
        /\ ~Includes(log[j].location.s, "undefined")

(***************************************************************************)
(* The specification SpecCalls: the helpers called on their own, on        *)
(* arguments of the types their contracts name.  log holds the latest      *)
(* call: the function, its arguments, the instant and what it returned.    *)
(***************************************************************************)
ObjectTypes ==
    {"bus", "BUS", "Bus", "bUs", "car", "Car", "truck", "Truck", "motorcycle",
     "MOTORCYCLE", "cup", "CUP", "pedestrian", "unknown", "", "buses", "cars",
     "bicycle"}

Timestamps ==
    {Undef, Null, Str(""), Num(0), Num(5000), Num(86400000), Bool(TRUE),
     Str("0"), Str("5000"), Str("86400000"), Str("86399999"), Str("1e4"),
     Str("2024-01-02T03:04:05.678Z"), Str("2024-01-02T03:04:05"),
     Str("2024-01-02 03:04:05"), Str("2024-13-45 99:99:99"),
     Str("garbage"), Str("Tuesday"), Str("T")}

RawLocations ==
    {Undef, Null, Str(""), Str("5,6"), Str("null,null"),
     Str("undefined,undefined"), Str("53.1,undefined")}

Positions == {Undef, Null, Num(0), Num(1), Num(2), Num(3), Num(4), Num(-7)}

\* The record of a call made now.
Call(fn, args, out) == [fn |-> fn, args |-> args, at |-> now, out |-> out]

CallChooseModel ==
    /\ \E objectType \in ObjectTypes :
           log' = <<Call("ChooseModel", <<Str(objectType)>>, ChooseModel(Str(objectType)))>>
    /\ UNCHANGED <<now, recentObjects, store, inflight, nextId, cleanup>>

CallFormatTimestamp ==
    /\ \E timestamp \in Timestamps :
           log' = <<Call("formatTimestamp", <<timestamp>>,
                         formatTimestamp(timestamp, now))>>
    /\ UNCHANGED <<now, recentObjects, store, inflight, nextId, cleanup>>

CallFormatLocation ==
    /\ \E location \in RawLocations, posX \in Positions, posY \in Positions :
           log' = <<Call("formatLocation", <<location, posX, posY>>,
                         formatLocation(location, posX, posY))>>
    /\ UNCHANGED <<now, recentObjects, store, inflight, nextId, cleanup>>

NextCalls ==
    \/ CallChooseModel
    \/ CallFormatTimestamp
    \/ CallFormatLocation
    \/ Tick

SpecCalls == Init /\ [][NextCalls]_vars

\* The calls of fn in the log.
Calls(fn) == {i \in DOMAIN log : log[i].fn = fn}

(***************************************************************************)
(* C12: the collection is a total, case-insensitive function of the        *)
(* object type (a string): "bus" in any case gives Bus; car, truck,        *)
(* motorcycle and cup in any case give Vehicle; every other string,        *)
(* "unknown" and the empty string included, gives Other; the choice never  *)
(* fails.                                                                  *)
(***************************************************************************)
\* s is w but for the case of its letters, w being in lower case.
IgnoringCase(s, w) ==
    /\ Len(s) = Len(w)
    /\ \A i \in 1..Len(w) : LowerOf(CharAt(s, i)) = CharAt(w, i)

Category(s) ==
    IF IgnoringCase(s, "bus") THEN "Bus"
    ELSE IF \E w \in {"car", "truck", "motorcycle", "cup"} : IgnoringCase(s, w)
    THEN "Vehicle"
    ELSE "Other"

C12_ClassifyTotal ==
    \A i \in Calls("ChooseModel") :
        /\ log[i].out \in {"Bus", "Vehicle", "Other"}
        /\ log[i].out = Category(log[i].args[1].s)

\* classify("Truck") has answered Vehicle.
C12_Witness ==
    \E i \in Calls("ChooseModel") :
        log[i].args[1] = Str("Truck") /\ log[i].out = "Vehicle"

(***************************************************************************)
(* C13: for every input formatTimestamp returns, without throwing, a       *)
(* string of the form YYYY-MM-DD HH:MM:SS that parses back to a point in   *)
(* time.                                                                   *)
(***************************************************************************)
\* The two digits of s from position i are a number from lo to hi.
TwoDigits(s, i, lo, hi) ==
    /\ AllDigits(SubSeq(s, i, i + 1))
    /\ DigitsValue(SubSeq(s, i, i + 1), 0) \in lo..hi

WellFormed(s) ==
    /\ IsCanonical(s)
    /\ TwoDigits(s, 6, 1, 12) /\ TwoDigits(s, 9, 1, 31)
    /\ TwoDigits(s, 12, 0, 23) /\ TwoDigits(s, 15, 0, 59) /\ TwoDigits(s, 18, 0, 59)

C13_TimestampWellFormed ==
    \A i \in Calls("formatTimestamp") : WellFormed(log[i].out)

(***************************************************************************)
(* C14: for every numeric string t, formatTimestamp(t) is the canonical,   *)
(* second-precision form of the instant t milliseconds after the epoch.    *)
(***************************************************************************)
C14_NumericStringIsMillis ==
    \A i \in Calls("formatTimestamp") :
        (log[i].args[1].t = "string" /\ log[i].args[1].s # ""
         /\ ToNumber(log[i].args[1]) # NaN)
        => log[i].out = Canonical(ToNumber(log[i].args[1]).n)

(***************************************************************************)
(* C15: formatLocation(raw, x, y) returns raw as it is when raw is present *)
(* (a non-empty string), is not "null,null" and does not hold              *)
(* "undefined"; otherwise "x,y" when x and y are both neither null nor     *)
(* absent; otherwise "0,0".  So (null, null, null) gives "0,0",            *)
(* ("5,6", 1, 2) gives "5,6" and (null, 3, 4) gives "3,4".                 *)
(***************************************************************************)
Present(v) == v \notin {Undef, Null}

ExpectedLocation(raw, x, y) ==
    IF Present(raw) /\ raw # Str("") /\ raw # Str("null,null")
       /\ ~Includes(raw.s, "undefined")
    THEN raw
    ELSE IF Present(x) /\ Present(y)
    THEN Str(ToString(x.n) \o "," \o ToString(y.n))
    ELSE Str("0,0")

C15_FormatLocation ==
    \A i \in Calls("formatLocation") :
        /\ log[i].out = ExpectedLocation(log[i].args[1], log[i].args[2], log[i].args[3])
        /\ log[i].args = <<Null, Null, Null>> => log[i].out = Str("0,0")
        /\ log[i].args = <<Str("5,6"), Num(1), Num(2)>> => log[i].out = Str("5,6")
        /\ log[i].args = <<Null, Num(3), Num(4)>> => log[i].out = Str("3,4")

\* formatLocation("5,6", 1, 2) has answered "5,6".
C15_Witness ==
    \E i \in Calls("formatLocation") :
        log[i].args = <<Str("5,6"), Num(1), Num(2)>> /\ log[i].out = Str("5,6")

(***************************************************************************)
(* The specification SpecMalformed: the four endpoints on payloads with    *)
(* fields missing, fields of another type than the client sends, and an    *)
(* embedded text that is no JSON.                                          *)
(***************************************************************************)
MalformedLogsBodies ==
    {Body(<<>>),
     Body(Event("car")),
     Body([session_id |-> Str("s1"), object_type |-> Num(5)]),
     Body([session_id |-> Str("s1"), object_type |-> Bool(TRUE)]),
     Body(Event("car") @@ [location |-> Num(5)]),
     Body(Event("car") @@ [location |-> Bool(TRUE)]),
     Body(Event("car") @@ [timestamp |-> Str("garbage")])}

MalformedTrackingBodies ==
    {Body(<<>>),
     Body(Event("car") @@ Located),
     Body([session_id |-> Str("s1"), object_type |-> Num(5)] @@ Located),
     Body(Event("car") @@ Located @@ [location |-> Num(5)])}

MalformedUploadBodies ==
    {Body(<<>>),
     Body([data |-> JsonText(Event("car"))]),
     Body([data |-> Str("not json")]),
     Body([data |-> JsonText([session_id |-> Str("s1"), object_type |-> Num(5)])]),
     Body([data |-> JsonText(Event("car") @@ [location |-> Num(5)])])}

MalformedBusImageBodies ==
    {Body(<<>>),
     Body(Event("bus") @@ Located @@ [image_data |-> Str("aW1n")]),
     Body(Event("bus") @@ Located),
     Body(Event("bus") @@ Located @@ [image_data |-> Str("")]),
     Body(Event("bus") @@ Located @@ [image_data |-> Str("aW1n"), location |-> Num(5)])}

NextMalformed ==
    \/ Logs(MalformedLogsBodies)
    \/ Tracking(MalformedTrackingBodies)
    \/ UploadImage(MalformedUploadBodies)
    \/ BusImage(MalformedBusImageBodies)
    \/ SaveSettles
    \/ FindOneSettles
    \/ SaveImageSettles
    \/ SaveTrackingSettles

SpecMalformed == Init /\ [][NextMalformed]_vars

(***************************************************************************)
(* C17: whatever the payload, a request to an ingestion endpoint is        *)
(* answered "stored" or "skipped" unless one of its storage calls failed:  *)
(* a failure response comes only from a storage fault.                     *)
(***************************************************************************)
C17_FailureOnlyFromStorage ==
    \A j \in DOMAIN log :
        Answered(j) =>
            \/ log[j].status = 200 /\ log[j].result \in {"stored", "skipped"}
            \/ log[j].fault # ""

(***************************************************************************)
(* C18: when an insert of an ingestion request fails, the request is       *)
(* answered with a failure after that one attempt, with no retry, and no   *)
(* record of the failed insert is persisted.  (In /bus-image the image     *)
(* inserted before a failed tracking insert stays.)                        *)
(***************************************************************************)
\* The collections the insert that failed for request j was into.
FailedInto(j) ==
    CASE log[j].fault = "save" -> Events
      [] log[j].fault = "saveImage" -> {"BusImage"}
      [] log[j].fault = "saveTracking" -> {"Bus"}

C18_FailedInsertNotRetried ==
    \A j \in DOMAIN log :
        log[j].fault \in {"save", "saveImage", "saveTracking"} =>
            /\ log[j].status = 500
            /\ log[j].result = "error"
            /\ j \notin DOMAIN inflight
            /\ \A e \in Inserted(j) : e.coll \notin FailedInto(j)
            /\ Cardinality(Inserted(j)) = log[j].saves - 1

\* An insert of /logs, /tracking or /upload-image has failed, and so has the
\* tracking insert of a /bus-image request.
C18_Witness ==
    \E i, j \in DOMAIN log :
        /\ log[i].fault = "save" /\ log[i].status = 500
        /\ log[j].fault = "saveTracking" /\ log[j].status = 500

(***************************************************************************)
(* C19: the fingerprint table is written by isRecentlyProcessed and, in    *)
(* /bus-image, by the handler itself once the tracking record is inserted. *)
(* /logs and /tracking first touch the store at their insert, after the    *)
(* duplicate check said false; /bus-image first queries the store, before  *)
(* any duplicate check, and /upload-image inserts with no duplicate check. *)
(***************************************************************************)
\* This step starts request j's first call of the storage layer.
FirstTouches(j) == j \in DOMAIN inflight' /\ j \notin DOMAIN inflight

\* This step is the /bus-image handler setting its key's time after the
\* tracking record was inserted.
DirectWrite ==
    \E j \in DOMAIN inflight :
        /\ inflight[j].pc = "saveTracking"
        /\ log'[j].status = 200
        /\ Inserted(j)' # Inserted(j)
        /\ recentObjects' = TableSet(recentObjects, log[j].key, now)

C19_TableStep ==
    recentObjects' # recentObjects =>
        \/ \E j \in DOMAIN log' : ChecksNow(j)
        \/ DirectWrite

C19_StoreStep ==
    \A j \in DOMAIN log' :
        FirstTouches(j) =>
            /\ log'[j].ep \in Generic =>
                   Admitted(j)' /\ inflight'[j].pc = "save"
            /\ log'[j].ep = "bus-image" =>
                   ~log'[j].checked /\ inflight'[j].pc = "findOne"
            /\ log'[j].ep = "upload-image" =>
                   ~log'[j].checked /\ inflight'[j].pc = "save"

C19_TableAndStoreFrame == [][C19_TableStep /\ C19_StoreStep]_vars

\* A /bus-image request whose key's time in the table is later than the
\* instant of its call of isRecentlyProcessed.
C19_Witness ==
    \E j \in DOMAIN log :
        /\ log[j].ep = "bus-image"
        /\ log[j].status = 200 /\ log[j].checked /\ ~log[j].dup
        /\ \E e \in Inserted(j) : e.coll = "Bus"
        /\ LastSeen(recentObjects, log[j].key) > log[j].checkedAt

\* C19 as stated: only isRecentlyProcessed writes the table, and every
\* handler first touches the store at its insert, after the duplicate check.
C19_OnlySuppressorWrites ==
    [][/\ recentObjects' # recentObjects => \E j \in DOMAIN log' : ChecksNow(j)
       /\ \A j \in DOMAIN log' :
              FirstTouches(j) => Admitted(j)' /\ inflight'[j].pc = "save"]_vars

(***************************************************************************)
(* cleanupIncompleteEntries, called once at startup and not awaited: its   *)
(* four deleteMany calls are awaited in turn while the server takes        *)
(* requests.  The specification SpecCleanup starts with the first call     *)
(* pending and takes requests whose GPS and user fields vary.              *)
(***************************************************************************)
\* {field: null} matches a document whose field is null or absent.
IsNull(v) == v \in {Null, Undef}

\* The filter of the deleteMany calls.
Incomplete(doc) ==
    \/ doc.gpsLocation \in {Str(""), Str("unknown,unknown")} \/ IsNull(doc.gpsLocation)
    \/ IsNull(doc.gpsLatitude)
    \/ IsNull(doc.gpsLongitude)
    \/ doc.userId = Str("")

\* The documents of collection coll that the filter matches.
Matched(coll) == {e \in store : e.coll = coll /\ Incomplete(e.doc)}

\* `await coll.deleteMany(...)` settles: the matching documents are gone and
\* the cleanup goes on to the collection next, or the call fails and the
\* catch block ends the cleanup.
DeleteMany(coll, next, ok) ==
    /\ cleanup.pc = coll
    /\ store' = IF ok THEN store \ Matched(coll) ELSE store
    /\ cleanup' = IF ok
                  THEN [pc |-> next,
                        removed |-> cleanup.removed \cup Matched(coll),
                        kept |-> cleanup.kept \cup
                                 {e \in store \ Matched(coll) : e.coll = coll}]
                  ELSE [cleanup EXCEPT !.pc = "done"]
    /\ UNCHANGED <<now, recentObjects, inflight, nextId, log>>

CleanBus == \E ok \in BOOLEAN : DeleteMany("Bus", "Vehicle", ok)
CleanVehicle == \E ok \in BOOLEAN : DeleteMany("Vehicle", "Other", ok)
CleanOther == \E ok \in BOOLEAN : DeleteMany("Other", "BusImage", ok)
CleanBusImage == \E ok \in BOOLEAN : DeleteMany("BusImage", "done", ok)

\* GPS and user fields of a client's submission, fields that the skip
\* condition refuses and fields that pass it without being the strings and
\* numbers of a client.
CleanupFields ==
    {Located,
     Having(Located, "gps_location", Str("unknown,unknown")),
     Having(Located, "gps_latitude", Num(0)),
     Except(Located, "user_id"),
     Having(Located, "gps_location", Num(5)),
     Having(Located, "user_id", Num(7))}

CleanupTrackingBodies == {Body(Event("car") @@ g) : g \in CleanupFields}

CleanupBusImageBodies ==
    {Body(Event("bus") @@ g @@ [image_data |-> Str("aW1n")]) : g \in CleanupFields}

\* The server starting: cleanupIncompleteEntries awaits its first deleteMany.
InitCleanup ==
    /\ now = Instants[1]
    /\ recentObjects = EmptyTable
    /\ store = {}
    /\ inflight = <<>>
    /\ nextId = 1
    /\ log = <<>>
    /\ cleanup = [pc |-> "Bus", removed |-> {}, kept |-> {}]

NextCleanup ==
    \/ Logs(LogsBodies)
    \/ Tracking(CleanupTrackingBodies)
    \/ UploadImage(UploadImageBodies)
    \/ BusImage(CleanupBusImageBodies)
    \/ SaveSettles
    \/ FindOneSettles
    \/ SaveImageSettles
    \/ SaveTrackingSettles
    \/ CleanBus
    \/ CleanVehicle
    \/ CleanOther
    \/ CleanBusImage

SpecCleanup == InitCleanup /\ [][NextCleanup]_vars

(***************************************************************************)
(* C20: a record leaves the store only in a step of the cleanup, and only  *)
(* if one of its GPS or user fields is missing (gpsLocation empty,         *)
(* "unknown,unknown" or null; gpsLatitude or gpsLongitude null; userId     *)
(* empty); no record of /tracking or /bus-image, which persist only what   *)
(* passed the skip condition, ever leaves it, however the cleanup's calls  *)
(* and the requests interleave.                                            *)
(***************************************************************************)
\* This step is one of the cleanup's deleteMany calls on collection coll.
CleanupStep(coll) == cleanup.pc = coll /\ cleanup'.pc # coll

\* The document has a GPS or user field missing; a field that was never set
\* counts as null.
MissingField(doc) ==
    \/ doc.gpsLocation = Str("")
    \/ doc.gpsLocation = Str("unknown,unknown")
    \/ doc.gpsLocation = Null \/ doc.gpsLocation = Undef
    \/ doc.gpsLatitude = Null \/ doc.gpsLatitude = Undef
    \/ doc.gpsLongitude = Null \/ doc.gpsLongitude = Undef
    \/ doc.userId = Str("")

C20_RemovedOnlyIncomplete ==
    [][\A e \in store \ store' :
           /\ CleanupStep(e.coll)
           /\ MissingField(e.doc)
           /\ log[e.req].ep \notin GpsBearing]_vars

\* A deleteMany removed a record and left a record of /tracking or
\* /bus-image that was in the same collection.
C20_Witness ==
    \E r \in cleanup.removed, k \in cleanup.kept :
        /\ r.coll = k.coll
        /\ log[k.req].ep \in GpsBearing
        /\ k \in store

(***************************************************************************)
(* The specification SpecBusImage: /bus-image requests of one session and  *)
(* device whose event type varies, stamped by the client in one hour or    *)
(* another or left to the server, and the storage calls settling.          *)
(***************************************************************************)
BusImageAt(timestamp, eventType) ==
    Body(Event("bus") @@ Located @@
         [image_data |-> Str("aW1n"), timestamp |-> Str(timestamp), event_type |-> Str(eventType)])

EventBusImageBodies ==
    {Body(Event("bus") @@ Located @@ [image_data |-> Str("aW1n")]),
     BusImageAt("2024-01-01 10:00:00", "exit"),
     BusImageAt("2024-01-01 11:00:00", "entry"),
     BusImageAt("2024-01-01 10:00:00", "continuous"),
     BusImageAt("2024-01-01 11:00:00", "Exit")}

NextBusImage ==
    \/ BusImage(EventBusImageBodies)
    \/ FindOneSettles
    \/ SaveImageSettles
    \/ SaveTrackingSettles

SpecBusImage == Init /\ [][NextBusImage]_vars

(***************************************************************************)
(* C21: the tracking entry that /bus-image saves besides the image has     *)
(* objectType "bus" and is in the Bus collection, with direction           *)
(* "outbound" when the submitted event type is "exit" and "inbound" for    *)
(* every other event type, or none.                                        *)
(***************************************************************************)
\* The records that /bus-image requests inserted besides their images.
Companions == {e \in store : log[e.req].ep = "bus-image" /\ e.coll # "BusImage"}

\* The direction the claim gives a tracking entry of event type t.
DirectionOf(t) == IF t = Str("exit") THEN Str("outbound") ELSE Str("inbound")

AdmittedAs(i, j) == i # j /\ Admitted(i) /\ log[i].key = log[j].key

C22_AnchoredWindow ==
    \A j \in DOMAIN log :
        (/\ log[j].ep \in Generic
         /\ log[j].checked
         /\ \A i \in DOMAIN log :
                AdmittedAs(i, j) => log[j].checkedAt - log[i].checkedAt >= DedupWindow)
            => ~log[j].dup

(***************************************************************************)
(* C23: when a call of isRecentlyProcessed has reported no duplicate, the  *)
(* table holds at most 100 entries or no entry older than 30000 ms, and    *)
(* the fingerprint of the call is in it with the time of the call.         *)
(***************************************************************************)
\* No entry of tbl is older than SweepAge at instant t.
NoneOlder(tbl, t) == \A k \in DOMAIN tbl : t - tbl[k] <= SweepAge

C23_CheckStep ==
    \A j \in DOMAIN log' :
        (ChecksNow(j) /\ ~log'[j].dup) =>
            /\ \/ Cardinality(DOMAIN recentObjects') <= SweepSize
               \/ NoneOlder(recentObjects', now)
            /\ log'[j].key \in DOMAIN recentObjects'
            /\ recentObjects'[log'[j].key] = now

C23_EvictionBounds == [][C23_CheckStep]_vars

\* A call has swept the table: entries older than 30000 ms are gone, the
\* call's own fingerprint is there.
C23_Witness ==
    \E j \in DOMAIN log :
        /\ Admitted(j)
        /\ log[j].key \in DOMAIN recentObjects
        /\ Cardinality(DOMAIN recentObjects) < SweepSize
        /\ \E i \in 1..SweepSize : FillerKey(i) \notin DOMAIN recentObjects

(***************************************************************************)
(* The specification SpecBusLogs: /logs requests whose object type is      *)
(* "bus" in one case or another, under one alias or another, or something  *)
(* else.                                                                   *)
(***************************************************************************)
Typed(field, objectType) ==
    Body([session_id |-> Str("s1"), device_id |-> Str("d1")] @@ (field :> Str(objectType)))

BusLogsBodies ==
    {Typed("object_type", "bus"), Typed("object_type", "Bus"), Typed("object_type", "BUS"),
     Typed("objectType", "bUs"), Typed("vehicle_type", "bus"),
     Typed("object_type", "car"), Typed("object_type", "buses"), Typed("object_type", "tram")}

NextBusLogs ==
    \/ Logs(BusLogsBodies)
    \/ SaveSettles

SpecBusLogs == Init /\ [][NextBusLogs]_vars

(***************************************************************************)
(* C24: a /logs request whose object type is "bus" in any case is answered *)
(* 200 with the result "skipped", inserts nothing and leaves the           *)
(* fingerprint table as it was; no /logs request adds a record to Bus.     *)
(***************************************************************************)
\* The object type /logs reads from body b.
LoggedType(b) == Or(Or(Or(b.objectType, b.object_type), b.vehicle_type), Str("unknown"))

\* Request j is a /logs request of a bus.
BusLog(j) ==
    /\ log'[j].ep = "logs"
    /\ LoggedType(log'[j].body).t = "string"
    /\ IgnoringCase(LoggedType(log'[j].body).s, "bus")

C24_BusLogStep ==
    /\ \A j \in DOMAIN log' :
           BusLog(j) =>
               /\ log'[j].status = 200 /\ log'[j].result = "skipped"
               /\ j \notin DOMAIN inflight'
               /\ Inserted(j)' = {}
               /\ j \notin DOMAIN log => recentObjects' = recentObjects /\ store' = store
    /\ \A e \in store' : log'[e.req].ep = "logs" => e.coll # "Bus"

C24_BusLogsSkipped == [][C24_BusLogStep]_vars

\* A bus was logged in upper case and skipped while the table held the
\* fingerprint of another /logs request, whose record is stored.
C24_Witness ==
    \E i, j \in DOMAIN log :
        /\ log[j].ep = "logs" /\ LoggedType(log[j].body) = Str("BUS")
        /\ log[j].result = "skipped"
        /\ log[i].ep = "logs" /\ Admitted(i) /\ Inserted(i) # {}
        /\ DOMAIN recentObjects = {log[i].key}

(***************************************************************************)
(* C25: in /logs, /tracking and /bus-image, when the payload has no usable *)
(* location and position_x and position_y are both present (0 included),   *)
(* the location is "position_x,position_y"; exit_position_x and            *)
(* exit_position_y stand in only for a position that is absent.            *)
(***************************************************************************)
\* A position field that holds a number or is absent.
NumberOrAbsent(v) == v.t = "number" \/ ~Present(v)

\* The position the claim has a handler use: the exit position only when
\* the position is absent.
Chosen(position, exit) == IF Present(position) THEN position ELSE exit

\* The location the claim gives a payload b without usable location.
PositionLocation(b) ==
    IF /\ Present(Chosen(b.position_x, b.exit_position_x))
       /\ Present(Chosen(b.position_y, b.exit_position_y))
    THEN Str(ToStr(Chosen(b.position_x, b.exit_position_x)) \o ","
             \o ToStr(Chosen(b.position_y, b.exit_position_y)))
    ELSE Str("0,0")

C25_PositionsGiveLocation ==
    \A j \in DOMAIN log :
        (/\ log[j].ep \in {"logs", "tracking", "bus-image"}
         /\ ~Present(log[j].body.location)
         /\ \A f \in {"position_x", "position_y", "exit_position_x", "exit_position_y"} :
                NumberOrAbsent(log[j].body[f]))
            => log[j].location = PositionLocation(log[j].body)

(***************************************************************************)
(* C26: a /tracking or /bus-image request skipped for missing GPS data or  *)
(* user id leaves the fingerprint table as it was, so a request reported   *)
(* a duplicate was preceded by an admitted one of its fingerprint, never   *)
(* only by skipped ones.                                                   *)
(***************************************************************************)
\* Request j was skipped by "Skip if GPS data or user ID is missing".
GateSkipped(j) == log[j].ep \in GpsBearing /\ log[j].message = MissingMessage

C26_GateStep ==
    /\ \A j \in DOMAIN log' \ DOMAIN log :
           GateSkipped(j)' => recentObjects' = recentObjects /\ ~log'[j].checked
    /\ \A j \in DOMAIN log' :
           (log'[j].ep \in GpsBearing /\ log'[j].dup) =>
               \E i \in DOMAIN log' :
                   i # j /\ Admitted(i)' /\ log'[i].key = log'[j].key

C26_SkipLeavesTable == [][C26_GateStep]_vars

\* A /tracking request was skipped for missing fields and the next request,
\* arriving at the same instant for the same object, was admitted.
C26_Witness ==
    \E i, j \in DOMAIN log :
        /\ j = i + 1
        /\ log[i].ep = "tracking" /\ GateSkipped(i)
        /\ log[j].ep = "tracking" /\ Admitted(j)
        /\ log[j].at = log[i].at
        /\ \A f \in {"session_id", "device_id", "object_type"} :
               log[i].body[f] = log[j].body[f]

(***************************************************************************)
(* C27: /logs and /tracking record the fingerprint before they attempt the *)
(* insert and leave it in the table when the insert fails: a resubmission  *)
(* of the event less than 10000 ms later is answered as a duplicate and    *)
(* inserts nothing.                                                        *)
(***************************************************************************)
\* The insert of request i to /logs or /tracking is pending or has failed.
InsertNotDone(i) ==
    /\ log[i].ep \in Generic
    /\ \/ i \in DOMAIN inflight
       \/ log[i].fault = "save"

C27_FingerprintOutlivesFailure ==
    \A i \in DOMAIN log :
        InsertNotDone(i) =>
            /\ log[i].key \in DOMAIN recentObjects
            /\ recentObjects[log[i].key] >= log[i].checkedAt
            /\ \A j \in DOMAIN log :
                   (/\ SameFingerprint(i, j)
                    /\ log[j].checkedAt - log[i].checkedAt < DedupWindow)
                       => /\ log[j].dup
                          /\ log[j].result = "skipped"
                          /\ Inserted(j) = {}

\* The insert of an event failed and its resubmission was answered as a
\* duplicate: no record of the event is in the store.
C27_Witness ==
    \E i, j \in DOMAIN log :
        /\ log[i].fault = "save"
        /\ SameFingerprint(i, j)
        /\ log[j].body = log[i].body
        /\ log[j].dup /\ log[j].result = "skipped"
        /\ Inserted(i) = {} /\ Inserted(j) = {}

(***************************************************************************)
(* C28: however /bus-image requests interleave, the BusImage collection    *)
(* never holds two records with the same sessionId, deviceId and           *)
(* timestamp, and a request that finds such a record is answered           *)
(* "skipped" and inserts nothing.                                          *)
(***************************************************************************)
\* The images in the store.
Images == {e \in store : e.coll = "BusImage"}

\* Records e and f are of the same session, device and timestamp.
SameImage(e, f) ==
    /\ e.doc.sessionId = f.doc.sessionId
    /\ e.doc.deviceId = f.doc.deviceId
    /\ e.doc.timestamp = f.doc.timestamp

C28_NoTwoImages ==
    /\ \A e, f \in Images : SameImage(e, f) => e = f
    /\ \A j \in DOMAIN log :
           log[j].message = "Bus image already exists" =>
               log[j].result = "skipped" /\ Inserted(j) = {}

(***************************************************************************)
(* C29: when the image insert of a /bus-image request succeeds and its     *)
(* tracking insert fails, the request is answered with a failure and the   *)
(* image stays in the store; every resubmission of the same session,       *)
(* device and timestamp that arrives later is skipped as already existing  *)
(* (when its query is answered) and inserts nothing, so the image never    *)
(* gets a tracking record.                                                 *)
(***************************************************************************)
\* The timestamp a handler computes for request j.
StampOf(j) ==
    formatTimestamp(Or(log[j].body.timestamp, Str(toISOString(log[j].at))), log[j].at)

\* Request k is a /bus-image request of the session, device and timestamp
\* of request i that arrived after i was answered.
Resubmits(k, i) ==
    /\ i < k /\ i \notin log[k].with
    /\ log[k].ep = "bus-image"
    /\ \A f \in {"session_id", "device_id"} : log[k].body[f] = log[i].body[f]
    /\ StampOf(k) = StampOf(i)

C29_ImageWithoutTracking ==
    \A i \in DOMAIN log :
        log[i].fault = "saveTracking" =>
            /\ log[i].status = 500
            /\ {e.coll : e \in Inserted(i)} = {"BusImage"}
            /\ \A k \in DOMAIN log :
                   Resubmits(k, i) =>
                       /\ Inserted(k) = {}
                       /\ k \in DOMAIN inflight => inflight[k].pc = "findOne"
                       /\ (Answered(k) /\ log[k].fault = "") =>
                              /\ log[k].result = "skipped"
                              /\ log[k].message = "Bus image already exists"

\* The tracking insert failed, a resubmission was skipped as already
\* existing, and the Bus collection holds nothing.
C29_Witness ==
    \E i, k \in DOMAIN log :
        /\ log[i].fault = "saveTracking"
        /\ Resubmits(k, i)
        /\ log[k].message = "Bus image already exists"
        /\ \A e \in store : e.coll = "BusImage"

(***************************************************************************)
(* The read endpoints behind authenticateToken: /api/sessions/:sessionId   *)
(* and the four /api/visualizations.  A read request is one step, in which *)
(* its queries settle with no insert between them; log gets the endpoint,  *)
(* the token, the session asked for, the status answered and the requests  *)
(* whose records the answer was computed from.                             *)
(***************************************************************************)
\* The Authorization header: absent, a token jwt.verify refuses, or a token
\* it verifies as issued to userId.
NoToken == [kind |-> "none", userId |-> ""]
BadToken == [kind |-> "bad", userId |-> ""]
TokenOf(userId) == [kind |-> "ok", userId |-> userId]

\* res.status(status).json({error}) and res.json(data)
Refused(status) == [status |-> status, data |-> {}, fault |-> ""]
Served(records) == [status |-> 200, data |-> {e.req : e \in records}, fault |-> ""]

\* The catch block of a read endpoint, a query having failed.
FetchFailed == [status |-> 500, data |-> {}, fault |-> "find"]

\* authenticateToken, then the handler: out is what the handler answers.
authenticateToken(token, out) ==
    IF token.kind = "none" THEN Refused(401)
    ELSE IF token.kind = "bad" THEN Refused(403)
    ELSE out

\* Model.find({sessionId}) over the collections colls.
Find(colls, sessionId) ==
    {e \in store : e.coll \in colls /\ e.doc.sessionId = Str(sessionId)}

\* query.select(paths): the documents with no other path than paths.
Select(records, paths) ==
    {[e EXCEPT !.doc = [f \in DOMAIN e.doc |-> IF f \in paths THEN e.doc[f] ELSE Undef]] :
        e \in records}

\* records.some(r => r.userId === userId) and records.some(r => r.isPublic)
isOwner(records, userId) == \E e \in records : e.doc.userId = Str(userId)
isPublic(records) == \E e \in records : Truthy(e.doc.isPublic)

\* "Check access" and the answer, the documents found being records.
CheckAccess(records, userId) ==
    IF ~isOwner(records, userId) /\ ~isPublic(records) THEN Refused(403)
    ELSE Served(records)

\* app.get('/api/sessions/:sessionId')
SessionDetails(sessionId, userId) ==
    IF Find({"Bus", "Vehicle", "Other"}, sessionId) = {} THEN Refused(404)
    ELSE CheckAccess(Find({"Bus", "Vehicle", "Other"}, sessionId), userId)

\* traffic-volume, vehicle-distribution and movement-patterns
Visualization(sessionId, userId) ==
    CheckAccess(Find({"Bus", "Vehicle"}, sessionId), userId)

\* app.get('/api/visualizations/gps-heatmap')
GpsHeatmap(sessionId, userId) ==
    CheckAccess(Select(Find({"Bus", "Vehicle"}, sessionId),
                       {"gpsLatitude", "gpsLongitude", "objectType"}),
                userId)

Tokens == {NoToken, BadToken, TokenOf("u1"), TokenOf("u2")}
SessionIds == {"s1", "s2"}

\* A GET of endpoint ep with the token for session sessionId is answered out.
Read(ep, token, sessionId, out) ==
    /\ nextId <= MaxReq
    /\ nextId' = nextId + 1
    /\ log' = Append(log, [ep |-> ep, token |-> token, sessionId |-> sessionId,
                           at |-> now, status |-> out.status, data |-> out.data,
                           fault |-> out.fault])
    /\ UNCHANGED <<now, recentObjects, store, inflight, cleanup>>

GetSession ==
    \E token \in Tokens, sessionId \in SessionIds, ok \in BOOLEAN :
        Read("sessions", token, sessionId,
             authenticateToken(token, IF ok THEN SessionDetails(sessionId, token.userId)
                                      ELSE FetchFailed))

GetTrafficVolume ==
    \E token \in Tokens, sessionId \in SessionIds, ok \in BOOLEAN :
        Read("traffic-volume", token, sessionId,
             authenticateToken(token, IF ok THEN Visualization(sessionId, token.userId)
                                      ELSE FetchFailed))

GetVehicleDistribution ==
    \E token \in Tokens, sessionId \in SessionIds, ok \in BOOLEAN :
        Read("vehicle-distribution", token, sessionId,
             authenticateToken(token, IF ok THEN Visualization(sessionId, token.userId)
                                      ELSE FetchFailed))

GetMovementPatterns ==
    \E token \in Tokens, sessionId \in SessionIds, ok \in BOOLEAN :
        Read("movement-patterns", token, sessionId,
             authenticateToken(token, IF ok THEN Visualization(sessionId, token.userId)
                                      ELSE FetchFailed))

GetGpsHeatmap ==
    \E token \in Tokens, sessionId \in SessionIds, ok \in BOOLEAN :
        Read("gps-heatmap", token, sessionId,
             authenticateToken(token, IF ok THEN GpsHeatmap(sessionId, token.userId)
                                      ELSE FetchFailed))

\* The specification SpecRead: user u1 submits cars, buses and trams of
\* session s1, private or public, and u1, u2 and callers without a valid
\* token read sessions s1 and s2.
ReadTrackingBodies ==
    {Body(Event(o) @@ Located @@ p) :
        o \in {"car", "bus", "tram"}, p \in {<<>>, [is_public |-> Bool(TRUE)]}}

NextRead ==
    \/ Tracking(ReadTrackingBodies)
    \/ SaveSettles
    \/ GetSession
    \/ GetTrafficVolume
    \/ GetVehicleDistribution
    \/ GetMovementPatterns
    \/ GetGpsHeatmap

SpecRead == Init /\ [][NextRead]_vars

(***************************************************************************)
(* C30: a read of a session through /api/sessions/:sessionId or one of     *)
(* the four /api/visualizations is answered with the session's data if     *)
(* and only if the token is valid and some record of the session has the   *)
(* token's userId or is public; so the owner is never answered 403 and a   *)
(* caller without a valid token never gets data.                           *)
(***************************************************************************)
ReadEndpoints ==
    {"sessions", "traffic-volume", "vehicle-distribution", "movement-patterns",
     "gps-heatmap"}

\* Some event record of the session is the user's or public.
OwnedOrPublic(sessionId, userId) ==
    \E e \in store :
        /\ e.coll \in Events
        /\ e.doc.sessionId = Str(sessionId)
        /\ e.doc.userId = Str(userId) \/ e.doc.isPublic = Bool(TRUE)

\* Request j, answered in this step, is a read that no query failed.
ReadsNow(j) ==
    /\ j \notin DOMAIN log
    /\ log'[j].ep \in ReadEndpoints
    /\ log'[j].fault = ""

C30_ReadStep ==
    \A j \in DOMAIN log' :
        ReadsNow(j) =>
            /\ log'[j].status = 200 <=>
                   /\ log'[j].token.kind = "ok"
                   /\ OwnedOrPublic(log'[j].sessionId, log'[j].token.userId)
            /\ log'[j].status # 200 => log'[j].data = {}
            /\ log'[j].token.kind # "ok" => log'[j].status \in {401, 403}

C30_OwnerOrPublicReads == [][C30_ReadStep]_vars

====
